---- MODULE Spec2Model ----
(***************************************************************************)
(* Model of the gateway core: the serial command bridge                    *)
(* (src/src/gateway/bridge.py, class ArduinoBridge) and the line path of   *)
(* the device link worker (src/src/gateway/bluno/bluno.py).                *)
(*                                                                         *)
(* Times are integers in milliseconds.  Threads are named by strings:      *)
(* "main" is the thread that constructs the bridge and later calls         *)
(* close(), "worker" is the SERIAL-BRIDGE thread; the callers of the       *)
(* public operations are the threads 1..NumCallers.                        *)
(***************************************************************************)
EXTENDS Integers, Sequences, FiniteSets, TLC

\* ------------------------------------------------------------------ bounds
NumCallers == 2     \* concurrent caller threads
MaxReq == 2         \* public operations issued in one behaviour
CmdQMax == 2        \* largest capacity of _cmd_q tried (100 in the source)
ArgStepMs == 1000   \* spacing of the caller-chosen timeout arguments tried
MaxArgSteps == 15   \* caller-chosen timeout arguments 0, 1000, ..., 15000 ms
MaxStream == 6      \* bytes notified on one connection in one behaviour
MaxChunk == 3       \* bytes in one notification
LineQMax == 3       \* capacity of the line queue _q (20 in the source), scaled down
MaxPush == 5        \* calls of _enqueue_line in one behaviour
MaxClock == 2       \* readings of now_ms() that differ
NumStops == 2       \* calls of BlunoWorker.stop() in one behaviour
MaxConn == 2        \* connections a device worker opens in one behaviour
MaxFail == 3        \* the count of failed connect/stream rounds saturates here
MaxLines == 4       \* lines a device delivers in one behaviour
SleepTicks == 2     \* the reconnect delay, in steps of the clock
MaxTok == 3         \* tokens in one line of the GPS reply
MaxGpsLines == 3    \* lines read by one _do_gps
MaxResp == 3        \* lines collected by one sendRaw, sendDirect or health
MaxAcks == 1        \* lines the peer sends during one publish
MaxDesc == 2        \* descriptors the device lists near the notify characteristic
MaxGapReq == 2      \* requests the worker dequeues while its timing is followed
MaxRecClock == 8    \* readings of now_ms() while one line is followed
MaxPeer == 3        \* lines the peer sends while two requests in a row are followed
MaxBytes == 4       \* bytes the peer sends while calls of the read helper are followed
MaxCalls == 2       \* calls of the read helper followed one after the other

\* ------------------------------------------------- constants of bridge.py
PING_TIMEOUT_MS == 2000        \* ping(timeout=2.0)
GPS_TIMEOUT_MS == 4000         \* get_gps(timeout=4.0)
PUBLISH_WAIT_OK_MS == 30000    \* publish_lines(wait_ok=30.0)
PUBLISH_EXTRA_MS == 5000       \* resp_q.get(timeout=wait_ok + 5.0)
AT_READ_TIMEOUT_MS == 12000    \* send_at(read_timeout=12.0)
DIRECT_READ_TIMEOUT_MS == 10000 \* send_direct_command(read_timeout=10.0)
HEALTH_READ_TIMEOUT_MS == 10000 \* send_health_command(read_timeout=10.0)
READ_EXTRA_MS == 2000          \* resp_q.get(timeout=read_timeout + 2.0)
EXPECT_MIN_MS == 50            \* max(0.05, timeout_s) in _expect
PING_EXPECT_MS == 2000         \* _expect([PONG], timeout_s=2.0)
GPS_WINDOW_MS == 4000          \* end = time.time() + 4.0
AT_PROMPT_MS == 1200           \* _expect(prompt, timeout_s=1.2)
AT_MIN_TIMEOUT_MS == 5000      \* AT_MIN_TIMEOUT_S
DIRECT_MIN_MS == 8000          \* max(8.0, read_timeout)
QUIET_MS == 200                \* (time.time() - last) > 0.2
GAP_FAST_MS == 200             \* GAP_FAST_S
GAP_PUBLISH_MS == 500          \* GAP_PUBLISH_S
CCCD_SCAN_SPAN == 12           \* getDescriptors(startHnd=start, endHnd=start + 12)
HEALTH_PAUSE_MS == 50          \* time.sleep(0.05) after the marker
PUBLISH_PAUSES_MS == 160       \* 0.03 + 0.05 + 0.03 + 0.05
MaxAttempts == 2               \* for attempt in range(2)

Callers == 1..NumCallers
Kinds == {"PING", "GPS", "PUBLISH", "AT", "DIRECT", "HEALTH"}
STOP == "__STOP__"

Max(a, b) == IF a >= b THEN a ELSE b
Min(a, b) == IF a <= b THEN a ELSE b

\* --------------------------------------------------------------- variables
VARIABLES
  cmd_q,        \* _cmd_q: the tuples waiting, oldest first
  maxsize,      \* _cmd_q.maxsize, fixed at construction
  atClose,      \* history: ids waiting on _cmd_q when close() cleared _running
  running,      \* _running
  ser_open,     \* _ser.is_open
  ready_armed,  \* the warm-up window armed by the last open is not yet waited out
  wpc,          \* position of the worker thread in _serial_worker
  cur,          \* the tuple the worker dequeued
  attempt,      \* loop variable of `for attempt in range(2)`
  step,         \* index of the next I/O step of the running protocol
  cpc,          \* per caller: position inside the public operation
  creq,         \* per caller: the tuple of the operation in progress
  cres,         \* per caller: how the last operation ended
  nextId,       \* number of public operations issued so far, plus one
  chan,         \* the reply queues: the values waiting on each
  mpc,          \* position of the main thread in close()
  \* ---- history (observation only) ----
  ioLog,        \* owners of the link I/O steps, consecutive repeats collapsed
  enqOrder,     \* ids in the order they were placed on cmd_q
  startOrder,   \* ids in the order the worker began to execute them
  touched,      \* <<thread, operation>> pairs performed on the transport
  rejected,     \* ids of the requests whose put raised queue.Full
  lastDone,     \* id of the request the worker has just finished (task_done)
  nAttempts,    \* protocol runs begun for cur
  nRecov,       \* recoveries performed for cur
  nRaise,       \* attempts of cur that raised
  nPuts,        \* per request id: values put on a reply queue for it
  lastPut,      \* the last value put on a reply queue, with cur's counters
  chanOf,       \* per request id: the reply queue created for it
  \* ---- one call of a public operation, its timeouts ----
  a_pc, a_kind, a_arg, a_wait, a_max,
  \* ---- _LineDelegate ----
  buf,          \* _buf
  emitted,      \* the lines handed to on_line, in order
  stream,       \* every byte notified so far, in order (history)
  joined,       \* a line was completed by a later chunk than the one it began in
  \* ---- BlunoWorker._q ----
  line_q,       \* _q: the (ts_ms, line) pairs waiting, oldest first
  pushed,       \* every pair _enqueue_line was called with, in order (history)
  clock,        \* now_ms()
  \* ---- BlunoWorker: its run thread, its TX thread, callers of stop() ----
  parse,        \* self.parse: "json" or "raw"
  stop_evt,     \* stop_evt.is_set()
  state_p,      \* self.state.p: 0 for None, else the connection held
  state_h,      \* self.state.tx_char, cmd_char, cccd_handle: 0 for None, else
                \* the connection they were obtained on
  conn,         \* per connection: "unused", "open" or "closed"
  ndisc,        \* per connection: calls of its disconnect() (history)
  nconn,        \* connections opened so far
  rpc,          \* position of the run thread
  r_new,        \* run thread: the Peripheral just constructed, not yet stored
  r_line,       \* run thread: the pair _enqueue_line is storing
  nfail,        \* rounds of the run loop that ended in an exception (history)
  sleep_left,   \* what is left of time.sleep(reconnect_interval)
  spc,          \* per call of stop(): its position
  tx_started,   \* _tx_thread_started
  tpc,          \* position of the TX thread
  t_last,       \* the line the TX thread has just processed (history)
  n_taken,      \* lines the TX thread has processed (history)
  parsed,       \* timestamps of the processed lines that held a full record
  mqtt_out,     \* timestamps of the records put on mqtt_queue, in order
  db_out,       \* timestamps of the records put on db_queue, in order
  \* ---- the device and its link, fixed for a behaviour ----
  dev_lines,    \* the kinds of line the device sends
  link_ok,      \* TRUE: no call on the link raises while the connection is up
  \* ---- single operations followed step by step, one record each ----
  gps,          \* one run of SerialBridge._do_gps
  col,          \* one run of the collection loop of _do_at, _do_direct_command,
                \* _do_health_command
  pub,          \* one run of SerialBridge._do_publish_sync
  cccd,         \* one call of BlunoWorker._find_cccd
  gap,          \* the timing of _serial_worker: _last_io_ts and the clock
  ble,          \* one run of BlunoWorker._connect_to_ble
  rec,          \* one line on its way from _enqueue_line through _tx_worker
  sin,          \* two requests in a row on one link: the unread input of the port
  rdl,          \* two calls in a row of SerialBridge._readline_until
  dlg           \* the delegate's reassembly buffer over the connections of a worker

callerV == <<cpc, creq, cres, nextId, chanOf, rejected>>
workerV == <<wpc, cur, attempt, step, nAttempts, nRecov, nRaise>>
portV == <<ser_open, ready_armed, touched>>
closeV == <<running, mpc, maxsize, atClose>>
replyV == <<chan, nPuts, lastPut, lastDone>>
orderV == <<cmd_q, enqOrder, startOrder, ioLog>>
bridgeVars == <<callerV, workerV, portV, closeV, replyV, orderV>>

argV == <<a_pc, a_kind, a_arg, a_wait, a_max>>
lineV == <<buf, emitted, stream, joined>>
lqV == <<line_q, pushed, clock>>
connV == <<state_p, state_h, conn, ndisc, nconn>>
runV == <<rpc, r_new, r_line, nfail, sleep_left>>
stopV == <<stop_evt, spc>>
txV == <<tx_started, tpc, t_last, n_taken, parsed, mqtt_out, db_out, parse>>
envV == <<dev_lines, link_ok>>
blunoV == <<connV, runV, stopV, txV, envV>>
moreV == <<sin, rdl, dlg>>
partsV == <<gps, col, pub, cccd, gap, ble, rec, moreV>>
others == <<argV, lineV, lqV, blunoV, partsV>>
vars == <<bridgeVars, others>>

NoReq == [id |-> 0, kind |-> "none", arg |-> 0, caller |-> 0, chan |-> 0]
StopItem == [id |-> 0, kind |-> STOP, arg |-> 0, caller |-> 0, chan |-> 0]
NoRes == [raised |-> FALSE, how |-> "none", for |-> 0, val |-> "none"]
NoPut == [chan |-> 0, for |-> 0, kind |-> "none", val |-> "none",
          attempts |-> 0, recov |-> 0, raises |-> 0]

\* ------------------------------------------------------- public operations
\* Default value of the timeout argument of each public operation.
DefaultArg(kind) ==
  CASE kind = "PING" -> PING_TIMEOUT_MS
    [] kind = "GPS" -> GPS_TIMEOUT_MS
    [] kind = "PUBLISH" -> PUBLISH_WAIT_OK_MS
    [] kind = "AT" -> AT_READ_TIMEOUT_MS
    [] kind = "DIRECT" -> DIRECT_READ_TIMEOUT_MS
    [] kind = "HEALTH" -> HEALTH_READ_TIMEOUT_MS

\* The timeout the caller passes to resp_q.get.
CallerWaitMs(kind, arg) ==
  CASE kind \in {"PING", "GPS"} -> arg
    [] kind = "PUBLISH" -> arg + PUBLISH_EXTRA_MS
    [] kind \in {"AT", "DIRECT", "HEALTH"} -> arg + READ_EXTRA_MS

\* The longest one attempt of the worker's protocol of a kind waits before it
\* returns its reply: its read windows and its pauses.
WorkerMaxMs(kind, arg) ==
  CASE kind = "PING" -> Max(EXPECT_MIN_MS, PING_EXPECT_MS)
    [] kind = "GPS" -> GPS_WINDOW_MS
    [] kind = "PUBLISH" -> PUBLISH_PAUSES_MS
    [] kind = "AT" -> Max(EXPECT_MIN_MS, AT_PROMPT_MS) + Max(AT_MIN_TIMEOUT_MS, arg)
    [] kind = "DIRECT" -> Max(DIRECT_MIN_MS, arg)
    [] kind = "HEALTH" -> HEALTH_PAUSE_MS + Max(DIRECT_MIN_MS, arg)

\* The value after `except Exception: return ...` of each public operation.
FailureValue(kind) ==
  CASE kind \in {"PING", "PUBLISH"} -> "False"
    [] kind = "GPS" -> "None"
    [] kind \in {"AT", "DIRECT", "HEALTH"} -> ""

\* `except Exception` of the public operations: it catches queue.Full and
\* queue.Empty, the two exceptions put and get raise.
CaughtOnlyEmpty(exc) == exc = "Empty"
Caught(exc) == exc \in {"Full", "Empty"}

\* How a public operation ends when put or get raises exc.
OnException(kind, id, exc) ==
  IF Caught(exc)
  THEN [raised |-> FALSE, how |-> exc, for |-> id, val |-> FailureValue(kind)]
  ELSE [raised |-> TRUE, how |-> exc, for |-> id, val |-> exc]

\* queue.Queue(maxsize=100): put blocks while the queue holds maxsize items.
FullNever(q) == FALSE
Full(q) == Len(q) >= maxsize

\* resp_q = queue.Queue(): a fresh reply queue per call, named by the call's id.
RespQPerCaller(c, id) == c
NewRespQ(c, id) == id

\* The tuple a public operation builds: (cmd_type, data, resp_q).
Request(c, kind) ==
  [id |-> nextId, kind |-> kind, arg |-> DefaultArg(kind), caller |-> c,
   chan |-> NewRespQ(c, nextId)]

\* A (wrong) set of public operations in which ping() runs its protocol on
\* the caller's thread instead of queueing it.
CallDirect(c) ==
  /\ cpc[c] \in {"idle", "done"}
  /\ nextId <= MaxReq
  /\ \E kind \in Kinds :
       /\ creq' = [creq EXCEPT ![c] = Request(c, kind)]
       /\ chanOf' = [chanOf EXCEPT ![nextId] = Request(c, kind).chan]
       /\ IF kind = "PING"
          THEN /\ cpc' = [cpc EXCEPT ![c] = "wait"]
               /\ ioLog' = IF ioLog # <<>> /\ ioLog[Len(ioLog)] = nextId
                           THEN ioLog ELSE Append(ioLog, nextId)
               /\ UNCHANGED <<cmd_q, enqOrder>>
          ELSE /\ UNCHANGED ioLog
               /\ IF Full(cmd_q)
                  THEN /\ cpc' = [cpc EXCEPT ![c] = "put"]
                       /\ UNCHANGED <<cmd_q, enqOrder>>
                  ELSE /\ cpc' = [cpc EXCEPT ![c] = "wait"]
                       /\ cmd_q' = Append(cmd_q, Request(c, kind))
                       /\ enqOrder' = Append(enqOrder, nextId)
  /\ cres' = [cres EXCEPT ![c] = NoRes]
  /\ nextId' = nextId + 1
  /\ UNCHANGED <<startOrder, rejected>>
  /\ UNCHANGED <<workerV, portV, closeV, replyV, others>>

\* A public operation up to its put(item, timeout=1.0): the tuple and its reply
\* queue are built; the put stores the tuple at once when a slot is free and
\* blocks otherwise.
Call(c) ==
  /\ cpc[c] \in {"idle", "done"}
  /\ nextId <= MaxReq
  /\ \E kind \in Kinds :
       /\ creq' = [creq EXCEPT ![c] = Request(c, kind)]
       /\ chanOf' = [chanOf EXCEPT ![nextId] = Request(c, kind).chan]
       /\ IF Full(cmd_q)
          THEN /\ cpc' = [cpc EXCEPT ![c] = "put"]
               /\ UNCHANGED <<cmd_q, enqOrder>>
          ELSE /\ cpc' = [cpc EXCEPT ![c] = "wait"]
               /\ cmd_q' = Append(cmd_q, Request(c, kind))
               /\ enqOrder' = Append(enqOrder, nextId)
  /\ cres' = [cres EXCEPT ![c] = NoRes]
  /\ nextId' = nextId + 1
  /\ UNCHANGED <<startOrder, ioLog, rejected>>
  /\ UNCHANGED <<workerV, portV, closeV, replyV, others>>

\* The blocked put gets a slot within its second.
PutOk(c) ==
  /\ cpc[c] = "put"
  /\ ~Full(cmd_q)
  /\ cmd_q' = Append(cmd_q, creq[c])
  /\ enqOrder' = Append(enqOrder, creq[c].id)
  /\ cpc' = [cpc EXCEPT ![c] = "wait"]
  /\ UNCHANGED <<creq, cres, nextId, chanOf, rejected, startOrder, ioLog>>
  /\ UNCHANGED <<workerV, portV, closeV, replyV, others>>

\* The blocked put raises queue.Full: no slot came free within its second.
PutTimeout(c) ==
  /\ cpc[c] = "put"
  /\ Full(cmd_q)
  /\ cres' = [cres EXCEPT ![c] = OnException(creq[c].kind, creq[c].id, "Full")]
  /\ rejected' = rejected \cup {creq[c].id}
  /\ cpc' = [cpc EXCEPT ![c] = "done"]
  /\ UNCHANGED <<creq, nextId, chanOf>>
  /\ UNCHANGED <<workerV, portV, closeV, replyV, orderV, others>>

\* resp_q.get(timeout=...) returns the value waiting on the reply queue.
GetReply(c) ==
  /\ cpc[c] = "wait"
  /\ chan[creq[c].chan] # <<>>
  /\ LET e == Head(chan[creq[c].chan])
     IN cres' = [cres EXCEPT ![c] = [raised |-> FALSE, how |-> "reply",
                                     for |-> e.for, val |-> e.val]]
  /\ chan' = [chan EXCEPT ![creq[c].chan] = Tail(@)]
  /\ cpc' = [cpc EXCEPT ![c] = "done"]
  /\ UNCHANGED <<creq, nextId, chanOf, rejected, nPuts, lastPut, lastDone>>
  /\ UNCHANGED <<workerV, portV, closeV, orderV, others>>

\* A (wrong) get whose timeout withdraws the caller's tuple from the command
\* queue.
GetTimeoutCancels(c) ==
  /\ cpc[c] = "wait"
  /\ chan[creq[c].chan] = <<>>
  /\ cres' = [cres EXCEPT ![c] = OnException(creq[c].kind, creq[c].id, "Empty")]
  /\ cpc' = [cpc EXCEPT ![c] = "done"]
  /\ cmd_q' = SelectSeq(cmd_q, LAMBDA r : r.id # creq[c].id)
  /\ UNCHANGED <<creq, nextId, chanOf, rejected, enqOrder, startOrder, ioLog>>
  /\ UNCHANGED <<workerV, portV, closeV, replyV, others>>

\* resp_q.get(timeout=...) raises queue.Empty: no value within the caller's wait.
GetTimeout(c) ==
  /\ cpc[c] = "wait"
  /\ chan[creq[c].chan] = <<>>
  /\ cres' = [cres EXCEPT ![c] = OnException(creq[c].kind, creq[c].id, "Empty")]
  /\ cpc' = [cpc EXCEPT ![c] = "done"]
  /\ UNCHANGED <<creq, nextId, chanOf, rejected>>
  /\ UNCHANGED <<workerV, portV, closeV, replyV, orderV, others>>

\* ------------------------------------------------------------------ worker
\* The I/O steps of one attempt of each protocol (_do_ping, _do_gps,
\* _do_publish_sync, _do_at, _do_direct_command, _do_health_command): a
\* "write" is one _write_line, a "read" is one _expect or one read loop.
Protocol(kind) ==
  CASE kind = "PING" -> <<"write", "read">>
    [] kind = "GPS" -> <<"write", "read">>
    [] kind = "PUBLISH" -> <<"write", "write", "write", "write", "write">>
    [] kind = "AT" -> <<"write", "read", "write", "read">>
    [] kind = "DIRECT" -> <<"write", "read">>
    [] kind = "HEALTH" -> <<"write", "write", "read">>

\* The values an attempt that did not raise can return.
ReplyChoices(kind) ==
  CASE kind = "PING" -> {"True", "False"}
    [] kind = "GPS" -> {"dict", "None"}
    [] kind = "PUBLISH" -> {"True"}
    [] kind \in {"AT", "DIRECT", "HEALTH"} -> {"text", ""}

\* The reply put after the last attempt raised (lines 295-302).
DegradedReply(kind) ==
  CASE kind \in {"PING", "PUBLISH"} -> "False"
    [] kind = "GPS" -> "None"
    [] kind \in {"AT", "DIRECT", "HEALTH"} -> ""

\* `if attempt == 0:` of the except handler: recover and go round again.
ShouldRecoverAlways(a) == TRUE
ShouldRecover(a) == a = 0

\* The transport operations behind one I/O step (_write_line, _readline_until).
StepOps(io) == IF io = "write" THEN {"write", "flush"} ELSE {"read"}

Logged(id) ==
  IF ioLog # <<>> /\ ioLog[Len(ioLog)] = id THEN ioLog ELSE Append(ioLog, id)

Reply(val) ==
  [chan |-> cur.chan, for |-> cur.id, kind |-> cur.kind, val |-> val,
   attempts |-> nAttempts, recov |-> nRecov, raises |-> nRaise]

\* response_queue.put(value)
PutReply(val) ==
  /\ chan' = [chan EXCEPT ![cur.chan] = Append(@, [for |-> cur.id, val |-> val])]
  /\ nPuts' = [nPuts EXCEPT ![cur.id] = @ + 1]
  /\ lastPut' = Reply(val)

\* self._cmd_q.task_done(); self._last_io_ts = time.time(); back to `while`.
Finish ==
  /\ lastDone' = cur.id
  /\ wpc' = "loop"
  /\ cur' = NoReq
  /\ attempt' = 0
  /\ step' = 1
  /\ UNCHANGED nAttempts

\* A (wrong) worker loop that goes on without testing _running.
WorkerLoopForever ==
  /\ wpc = "loop"
  /\ wpc' = "get"
  /\ lastPut' = NoPut /\ lastDone' = 0
  /\ nAttempts' = 0 /\ nRecov' = 0 /\ nRaise' = 0
  /\ UNCHANGED <<cur, attempt, step, chan, nPuts>>
  /\ UNCHANGED <<callerV, portV, closeV, orderV, others>>

\* `while self._running:`
WorkerLoop ==
  /\ wpc = "loop"
  /\ wpc' = IF running THEN "get" ELSE "stopped"
  /\ lastPut' = NoPut /\ lastDone' = 0
  /\ nAttempts' = 0 /\ nRecov' = 0 /\ nRaise' = 0
  /\ UNCHANGED <<cur, attempt, step, chan, nPuts>>
  /\ UNCHANGED <<callerV, portV, closeV, orderV, others>>

\* A (wrong) dequeue that takes the newest entry.
WorkerGetNewest ==
  /\ wpc = "get"
  /\ cmd_q # <<>>
  /\ LET item == cmd_q[Len(cmd_q)]
     IN /\ cmd_q' = SubSeq(cmd_q, 1, Len(cmd_q) - 1)
        /\ IF item.kind = STOP
           THEN /\ wpc' = "stopped"
                /\ UNCHANGED <<cur, startOrder>>
           ELSE /\ wpc' = "warmup"
                /\ cur' = item
                /\ startOrder' = Append(startOrder, item.id)
  /\ UNCHANGED <<attempt, step, nAttempts, nRecov, nRaise, enqOrder, ioLog>>
  /\ UNCHANGED <<callerV, portV, closeV, replyV, others>>

\* self._cmd_q.get(timeout=0.5) returns the oldest entry; `__STOP__` breaks.
WorkerGet ==
  /\ wpc = "get"
  /\ cmd_q # <<>>
  /\ LET item == Head(cmd_q)
     IN /\ cmd_q' = Tail(cmd_q)
        /\ IF item.kind = STOP
           THEN /\ wpc' = "stopped"
                /\ UNCHANGED <<cur, startOrder>>
           ELSE /\ wpc' = "warmup"
                /\ cur' = item
                /\ startOrder' = Append(startOrder, item.id)
  /\ UNCHANGED <<attempt, step, nAttempts, nRecov, nRaise, enqOrder, ioLog>>
  /\ UNCHANGED <<callerV, portV, closeV, replyV, others>>

\* self._cmd_q.get(timeout=0.5) raises queue.Empty: `continue`.
WorkerGetEmpty ==
  /\ wpc = "get"
  /\ cmd_q = <<>>
  /\ wpc' = "loop"
  /\ UNCHANGED <<cur, attempt, step, nAttempts, nRecov, nRaise>>
  /\ UNCHANGED <<callerV, portV, closeV, replyV, orderV, others>>

\* Lines 252-266: inside the warm-up window sleep it out and drain the input
\* (reads on the link, exceptions swallowed); then the inter-command gap; then
\* the first attempt begins.
WorkerWarmup ==
  /\ wpc = "warmup"
  /\ \E inside \in {b \in BOOLEAN : b => ready_armed} :
       IF inside
       THEN /\ ioLog' = Logged(cur.id)
            /\ touched' = touched \cup {<<"worker", "read">>}
       ELSE UNCHANGED <<ioLog, touched>>
  /\ ready_armed' = FALSE
  /\ wpc' = "exec"
  /\ attempt' = 0
  /\ step' = 1
  /\ nAttempts' = nAttempts + 1
  /\ UNCHANGED <<cur, nRecov, nRaise, ser_open, cmd_q, enqOrder,
                 startOrder>>
  /\ UNCHANGED <<callerV, closeV, replyV, others>>

\* One I/O step of the running protocol: it completes, or it raises (an I/O
\* fault of the link at any step, always when the port is not open).
WorkerIo ==
  /\ wpc = "exec"
  /\ step <= Len(Protocol(cur.kind))
  /\ ioLog' = Logged(cur.id)
  /\ touched' = touched \cup
                  {<<"worker", op>> : op \in StepOps(Protocol(cur.kind)[step])}
  /\ \/ /\ ser_open
        /\ step' = step + 1
        /\ UNCHANGED <<wpc, nRaise>>
     \/ /\ wpc' = "except"
        /\ nRaise' = nRaise + 1
        /\ UNCHANGED step
  /\ UNCHANGED <<cur, attempt, nAttempts, nRecov, ser_open, ready_armed, cmd_q,
                 enqOrder, startOrder>>
  /\ UNCHANGED <<callerV, closeV, replyV, others>>

\* response_queue.put(self._do_x()); break; then task_done and _last_io_ts.
WorkerReply ==
  /\ wpc = "exec"
  /\ step > Len(Protocol(cur.kind))
  /\ \E val \in ReplyChoices(cur.kind) : PutReply(val)
  /\ Finish
  /\ UNCHANGED <<nRecov, nRaise>>
  /\ UNCHANGED <<callerV, portV, closeV, orderV, others>>

\* _recover_serial: close the port if it is open, pause, _open_serial; an open
\* that raises is logged and leaves the closed port in place.
RecoverSerial ==
  /\ touched' = touched \cup ({<<"worker", "open">>} \cup
                              IF ser_open THEN {<<"worker", "close">>} ELSE {})
  /\ \/ /\ ser_open' = TRUE
        /\ ready_armed' = TRUE
     \/ /\ ser_open' = FALSE
        /\ UNCHANGED ready_armed

\* A (wrong) worker whose loop has no except clause: the exception of an
\* attempt ends the thread.
WorkerExceptDies ==
  /\ wpc = "except"
  /\ wpc' = "stopped"
  /\ UNCHANGED <<cur, attempt, step, nAttempts, nRecov, nRaise>>
  /\ UNCHANGED <<callerV, portV, closeV, replyV, orderV, others>>

\* The except handler (lines 287-305).  On the first attempt: _recover_serial,
\* sleep, and the loop goes round if it has an iteration left.  Otherwise the
\* degraded reply is put and the loop is left.
WorkerExcept ==
  /\ wpc = "except"
  /\ IF ShouldRecover(attempt)
     THEN /\ RecoverSerial
          /\ nRecov' = nRecov + 1
          /\ IF attempt + 1 < MaxAttempts
             THEN /\ attempt' = attempt + 1
                  /\ step' = 1
                  /\ nAttempts' = nAttempts + 1
                  /\ wpc' = "exec"
                  /\ UNCHANGED <<cur, lastDone>>
             ELSE Finish
          /\ UNCHANGED <<chan, nPuts, lastPut>>
     ELSE /\ PutReply(DegradedReply(cur.kind))
          /\ Finish
          /\ UNCHANGED <<portV, nRecov>>
  /\ UNCHANGED nRaise
  /\ UNCHANGED <<callerV, closeV, orderV, others>>

\* ------------------------------------------------------------------ close()
\* close(), lines 219-225: `if self._running: self._running = False`, then the
\* stop sentinel is put with a timeout of 0.5 s: at once when a slot is free.
CloseBegin ==
  /\ mpc = "live"
  /\ running' = FALSE
  /\ IF Full(cmd_q)
     THEN mpc' = "put" /\ UNCHANGED cmd_q
     ELSE mpc' = "join" /\ cmd_q' = Append(cmd_q, StopItem)
  /\ atClose' = {cmd_q[i].id : i \in DOMAIN cmd_q}
  /\ UNCHANGED <<maxsize, enqOrder, startOrder, ioLog>>
  /\ UNCHANGED <<callerV, workerV, portV, replyV, others>>

\* The blocked put of the sentinel gets a slot, or raises queue.Full after
\* 0.5 s, which is passed over.
ClosePut ==
  /\ mpc = "put"
  /\ cmd_q' = IF Full(cmd_q) THEN cmd_q ELSE Append(cmd_q, StopItem)
  /\ mpc' = "join"
  /\ UNCHANGED <<running, maxsize, atClose, enqOrder, startOrder, ioLog>>
  /\ UNCHANGED <<callerV, workerV, portV, replyV, others>>

\* Lines 226-229: self._worker.join(timeout=3.0) returns when the worker has
\* ended or after three seconds, whichever comes first; then
\* `if self._ser and self._ser.is_open: self._ser.close()`, on the thread that
\* called close().
ClosePort ==
  /\ mpc = "join"
  /\ ser_open' = FALSE
  /\ touched' = IF ser_open THEN touched \cup {<<"main", "close">>} ELSE touched
  /\ mpc' = "closed"
  /\ UNCHANGED <<running, maxsize, atClose, ready_armed>>
  /\ UNCHANGED <<callerV, workerV, replyV, orderV, others>>

\* close() called again after it has returned: _running is False, so lines
\* 220-226 are skipped; lines 227-229 close the port if it is open.
CloseAgain ==
  /\ mpc = "closed"
  /\ mpc' = "closed2"
  /\ ser_open' = FALSE
  /\ touched' = IF ser_open THEN touched \cup {<<"main", "close">>} ELSE touched
  /\ UNCHANGED <<running, maxsize, atClose, ready_armed>>
  /\ UNCHANGED <<callerV, workerV, replyV, orderV, others>>

\* ---------------------------------------------------- the bridge as a whole
\* The state when __init__ returns: the port was opened by the constructing
\* thread (_open_serial, which arms the warm-up window) and the worker started.
BridgeInit ==
  /\ cmd_q = <<>>
  /\ maxsize \in 1..CmdQMax
  /\ atClose = {}
  /\ running = TRUE
  /\ ser_open = TRUE
  /\ ready_armed = TRUE
  /\ wpc = "loop"
  /\ cur = NoReq
  /\ attempt = 0
  /\ step = 1
  /\ cpc = [c \in Callers |-> "idle"]
  /\ creq = [c \in Callers |-> NoReq]
  /\ cres = [c \in Callers |-> NoRes]
  /\ nextId = 1
  /\ chan = [k \in 1..MaxReq |-> <<>>]
  /\ mpc = "live"
  /\ ioLog = <<>>
  /\ enqOrder = <<>>
  /\ startOrder = <<>>
  /\ touched = {<<"main", "open">>}
  /\ rejected = {}
  /\ lastDone = 0
  /\ nAttempts = 0
  /\ nRecov = 0
  /\ nRaise = 0
  /\ nPuts = [k \in 1..MaxReq |-> 0]
  /\ lastPut = NoPut
  /\ chanOf = [k \in 1..MaxReq |-> 0]

\* The parts not running in a specification rest in these states.
ArgIdle ==
  a_pc = "idle" /\ a_kind = "none" /\ a_arg = 0 /\ a_wait = 0 /\ a_max = 0
LineInit == buf = <<>> /\ emitted = <<>> /\ stream = <<>> /\ joined = FALSE
LineQInit == line_q = <<>> /\ pushed = <<>> /\ clock = 0

BridgeIdle == BridgeInit /\ maxsize = CmdQMax

\* A BlunoWorker as constructed (lines 90-98), its thread not yet started.
BlunoInit ==
  /\ parse \in {"json", "raw"}
  /\ stop_evt = FALSE
  /\ state_p = 0
  /\ state_h = 0
  /\ conn = [k \in 1..MaxConn |-> "unused"]
  /\ ndisc = [k \in 1..MaxConn |-> 0]
  /\ nconn = 0
  /\ rpc = "new"
  /\ r_new = 0
  /\ r_line = <<0, "none">>
  /\ nfail = 0
  /\ sleep_left = 0
  /\ spc = [s \in 1..NumStops |-> "idle"]
  /\ tx_started = FALSE
  /\ tpc = "new"
  /\ t_last = "none"
  /\ n_taken = 0
  /\ parsed = <<>>
  /\ mqtt_out = <<>>
  /\ db_out = <<>>

BlunoIdle ==
  BlunoInit /\ parse = "json" /\ dev_lines = {} /\ link_ok = TRUE

\* None of the operations followed step by step has been called.
Off == [pc |-> "off"]
GpsIdle == gps = Off
ColIdle == col = Off
PubIdle == pub = Off
CccdIdle == cccd = Off
GapIdle == gap = Off
BleIdle == ble = Off
RecIdle == rec = Off
SinIdle == sin = Off
RdlIdle == rdl = Off
DlgIdle == dlg = Off
MoreIdle == SinIdle /\ RdlIdle /\ DlgIdle
PartsIdle ==
  /\ GpsIdle /\ ColIdle /\ PubIdle /\ CccdIdle /\ GapIdle /\ BleIdle /\ RecIdle /\ MoreIdle
  /\ MoreIdle

Init == BridgeInit /\ ArgIdle /\ LineInit /\ LineQInit /\ BlunoIdle /\ PartsIdle

Next ==
  \/ \E c \in Callers : Call(c)
  \/ \E c \in Callers : PutOk(c)
  \/ \E c \in Callers : PutTimeout(c)
  \/ \E c \in Callers : GetReply(c)
  \/ \E c \in Callers : GetTimeout(c)
  \/ WorkerLoop
  \/ WorkerGet
  \/ WorkerGetEmpty
  \/ WorkerWarmup
  \/ WorkerIo
  \/ WorkerReply
  \/ WorkerExcept
  \/ CloseBegin
  \/ ClosePut
  \/ ClosePort

Spec == Init /\ [][Next]_vars

\* The bridge with a second call of close() after the first has returned.
InitClose == BridgeIdle /\ ArgIdle /\ LineInit /\ LineQInit /\ BlunoIdle /\ PartsIdle

CloseNext == Next \/ CloseAgain

SpecClose == InitClose /\ [][CloseNext]_vars

\* ------------------------------------------- timeouts of a public operation
\* One call with a timeout argument: the wait the caller passes to
\* resp_q.get, and the longest the worker's protocol may take for that tuple.
ArgChoices(kind) ==
  {DefaultArg(kind)} \cup {i * ArgStepMs : i \in 0..MaxArgSteps}

ArgInit ==
  /\ a_pc = "call"
  /\ a_kind \in Kinds
  /\ a_arg \in ArgChoices(a_kind)
  /\ a_wait = 0
  /\ a_max = 0

\* The caller has put its tuple and enters resp_q.get(timeout=...), the
\* worker enters the protocol.
ArgCall ==
  /\ a_pc = "call"
  /\ a_pc' = "wait"
  /\ a_wait' = CallerWaitMs(a_kind, a_arg)
  /\ a_max' = WorkerMaxMs(a_kind, a_arg)
  /\ UNCHANGED <<a_kind, a_arg>>
  /\ UNCHANGED <<bridgeVars, lineV, lqV, blunoV, partsV>>

InitArgs == BridgeIdle /\ ArgInit /\ LineInit /\ LineQInit /\ BlunoIdle /\ PartsIdle

SpecArgs == InitArgs /\ [][ArgCall]_vars

\* ----------------------------------------------------------- _LineDelegate
\* The bytes the model notifies: "\n", "\r", "a", "b" and 0xFF, a byte that is
\* not valid UTF-8 anywhere.
NL == 10
Bytes == {10, 13, 97, 98, 255}

\* bytes.find(b"\n"): index of the first terminator, 0 when there is none.
Find(b) ==
  IF \E i \in 1..Len(b) : b[i] = NL
  THEN CHOOSE i \in 1..Len(b) : b[i] = NL /\ \A j \in 1..(i - 1) : b[j] # NL
  ELSE 0

\* .decode("utf-8", errors="ignore") on these bytes: ASCII maps to itself, the
\* invalid byte is dropped.
IsAscii(x) == x < 128
Decode(b) == SelectSeq(b, IsAscii)

\* str.strip(): whitespace removed at both ends.
IsSpace(ch) == ch \in {9, 10, 11, 12, 13, 28, 29, 30, 31, 32}
RECURSIVE LStrip(_)
LStrip(t) == IF t # <<>> /\ IsSpace(Head(t)) THEN LStrip(Tail(t)) ELSE t
RECURSIVE RStrip(_)
RStrip(t) ==
  IF t # <<>> /\ IsSpace(t[Len(t)]) THEN RStrip(SubSeq(t, 1, Len(t) - 1)) ELSE t
Strip(t) == RStrip(LStrip(t))

\* A (wrong) handler with `if` in place of `while True`: one line per call.
DrainOnce(b, out) ==
  LET nl == Find(b)
      line == Strip(Decode(SubSeq(b, 1, nl - 1)))
  IN IF nl = 0 THEN [buf |-> b, out |-> out]
     ELSE [buf |-> SubSeq(b, nl + 1, Len(b)),
           out |-> IF line # <<>> THEN Append(out, line) ELSE out]

\* The loop of handleNotification (lines 44-51) on buffer b: every complete
\* line is cut off, decoded and stripped, and handed on unless empty.
RECURSIVE Drain(_, _)
Drain(b, out) ==
  LET nl == Find(b)
      line == Strip(Decode(SubSeq(b, 1, nl - 1)))
  IN IF nl = 0 THEN [buf |-> b, out |-> out]
     ELSE Drain(SubSeq(b, nl + 1, Len(b)),
                IF line # <<>> THEN Append(out, line) ELSE out)

Chunks == UNION {[1..n -> Bytes] : n \in 1..MaxChunk}

\* handleNotification(cHandle, data)
HandleNotification(data) ==
  /\ Len(stream) + Len(data) <= MaxStream
  /\ LET r == Drain(buf \o data, <<>>)
     IN /\ buf' = r.buf
        /\ emitted' = emitted \o r.out
  /\ stream' = stream \o data
  /\ joined' = (joined \/ (buf # <<>> /\ Find(data) # 0))
  /\ UNCHANGED <<bridgeVars, argV, lqV, blunoV, partsV>>

LineNext == \E data \in Chunks : HandleNotification(data)

InitLines == BridgeIdle /\ ArgIdle /\ LineInit /\ LineQInit /\ BlunoIdle /\ PartsIdle

SpecLines == InitLines /\ [][LineNext]_vars

\* --------------------------------------------------------- BlunoWorker._q
LineVals == {"a", "b"}

\* A (wrong) put on a queue built without maxsize.
PutAlways(q, item) == [ok |-> TRUE, q |-> Append(q, item)]

\* _q.put_nowait(item): stores the item, or raises queue.Full.
PutNowait(q, item) ==
  IF Len(q) < LineQMax THEN [ok |-> TRUE, q |-> Append(q, item)]
  ELSE [ok |-> FALSE, q |-> q]

\* A (wrong) get that takes the newest entry.
GetNewest(q) ==
  IF q = <<>> THEN [ok |-> FALSE, q |-> q]
  ELSE [ok |-> TRUE, q |-> SubSeq(q, 1, Len(q) - 1)]

\* _q.get_nowait(): removes the oldest entry, or raises queue.Empty.
GetNowait(q) ==
  IF q = <<>> THEN [ok |-> FALSE, q |-> q] ELSE [ok |-> TRUE, q |-> Tail(q)]

\* The queue after _enqueue_line has run on queue q with item (lines 226-234):
\* put_nowait; on queue.Full get_nowait and put_nowait again, any exception of
\* these two passed over.
AfterEnqueue(q, item) ==
  LET p == PutNowait(q, item)
      g == GetNowait(q)
      p2 == PutNowait(g.q, item)
  IN IF p.ok THEN p.q
     ELSE IF ~g.ok THEN q
     ELSE IF p2.ok THEN p2.q
     ELSE g.q

\* _enqueue_line(line), with no other thread on the queue.
EnqueueLine(line) ==
  /\ Len(pushed) < MaxPush
  /\ line_q' = AfterEnqueue(line_q, <<clock, line>>)
  /\ pushed' = Append(pushed, <<clock, line>>)
  /\ UNCHANGED clock
  /\ UNCHANGED <<bridgeVars, argV, lineV, blunoV, partsV>>

\* Time passes: now_ms() grows.
Tick ==
  /\ clock < MaxClock
  /\ clock' = clock + 1
  /\ UNCHANGED <<line_q, pushed>>
  /\ UNCHANGED <<bridgeVars, argV, lineV, blunoV, partsV>>

LineQNext == (\E line \in LineVals : EnqueueLine(line)) \/ Tick

InitLineQ == BridgeIdle /\ ArgIdle /\ LineInit /\ LineQInit /\ BlunoIdle /\ PartsIdle

SpecLineQ == InitLineQ /\ [][LineQNext]_vars

\* ------------------------------------------------ BlunoWorker: the TX thread
\* What a device can send as one line: text that is no JSON ("bad"), a JSON
\* object with the four fields read ("full"), a JSON object lacking some
\* ("partial"), JSON that is no object ("scalar"), and the text __STOP__.
LineKinds == {"bad", "full", "partial", "scalar", STOP}

\* The keys of the object json.loads returns for a line (field_map empty).
Keys(line) ==
  CASE line = "full" -> {"gas", "temp", "hum", "pres"}
    [] line = "partial" -> {"temp", "hum"}
    [] OTHER -> {}

\* The fields read from obj for either record (lines 262-265 and 273-276).
ReadKeys == {"gas", "temp", "hum", "pres"}

\* The keyword arguments both constructors are called with (lines 261-266,
\* 272-277).
RecordKwargs == {"sensor_id", "gas", "temp", "hum", "pres", "ts_ms"}

\* models.py: the fields of each dataclass, and those without a default.
MQTT_FIELDS ==
  {"sensor_id", "sensor_type", "sensor_numeric_id", "temp", "hum", "pres",
   "ts_ms", "lux", "delta_g"}
MQTT_REQUIRED ==
  {"sensor_id", "sensor_type", "sensor_numeric_id", "temp", "hum", "pres",
   "ts_ms"}
DB_FIELDS == {"sensor_id", "temp", "hum", "pres", "ts_ms", "lux", "delta_g"}
DB_REQUIRED == {"sensor_id", "temp", "hum", "pres", "ts_ms"}

\* The generated __init__ of a dataclass called with keyword arguments: an
\* unknown keyword or a missing required field raises TypeError.
Construct(fields, required, kwargs) ==
  IF kwargs \subseteq fields /\ required \subseteq kwargs THEN "ok"
  ELSE "TypeError"

\* The body of `if self.parse == "json":` on one line, in the order of the
\* code: json.loads, the reads obj[...], MQTTQueueItem(...), mqtt_queue
\* .put_nowait (the queues of run.py are unbounded), SQLiteDatabaseItem(...),
\* db_queue.put_nowait.  exc is the exception that ended it, mqtt and db tell
\* which puts were made.
ProcessJson(line) ==
  IF line = "bad"
  THEN [exc |-> "JSONDecodeError", mqtt |-> FALSE, db |-> FALSE]
  ELSE IF line = "scalar"
  THEN [exc |-> "TypeError", mqtt |-> FALSE, db |-> FALSE]
  ELSE IF ~(ReadKeys \subseteq Keys(line))
  THEN [exc |-> "KeyError", mqtt |-> FALSE, db |-> FALSE]
  ELSE IF Construct(MQTT_FIELDS, MQTT_REQUIRED, RecordKwargs) # "ok"
  THEN [exc |-> "TypeError", mqtt |-> FALSE, db |-> FALSE]
  ELSE IF Construct(DB_FIELDS, DB_REQUIRED, RecordKwargs) # "ok"
  THEN [exc |-> "TypeError", mqtt |-> TRUE, db |-> FALSE]
  ELSE [exc |-> "none", mqtt |-> TRUE, db |-> TRUE]

\* `except json.JSONDecodeError:` (line 280), the only handler of the body.
HandledNone(exc) == FALSE
Handled(exc) == exc = "JSONDecodeError"

\* `while not self.stop_evt.is_set():` of _tx_worker.
TxLoop ==
  /\ tpc = "loop"
  /\ tpc' = IF stop_evt THEN "exited" ELSE "get"
  /\ t_last' = "none"
  /\ UNCHANGED <<tx_started, n_taken, parsed, mqtt_out, db_out, parse>>
  /\ UNCHANGED <<connV, runV, stopV, lqV, bridgeVars, argV, lineV, envV, partsV>>

\* self._q.get(timeout=1.0) raises queue.Empty: `continue`.
TxGetEmpty ==
  /\ tpc = "get"
  /\ line_q = <<>>
  /\ tpc' = "loop"
  /\ UNCHANGED <<tx_started, t_last, n_taken, parsed, mqtt_out, db_out, parse>>
  /\ UNCHANGED <<connV, runV, stopV, lqV, bridgeVars, argV, lineV, envV, partsV>>

\* now_ms() as read by the TX thread when it builds a record (`ts_ms=now_ms()`,
\* lines 266 and 277).
NowMs == clock

\* A (wrong) test that takes the text for the sentinel only once stop() was
\* called.
IsSentinelOnStop(line) == line = STOP /\ stop_evt
\* `if line == "__STOP__": break`, lines 248-249: the text alone decides.
IsSentinel(line) == line = STOP

\* self._q.get returns the oldest pair; `__STOP__` breaks; else the line is
\* processed (lines 252-283): an exception the handler does not name ends the
\* thread.
TxGet ==
  /\ tpc = "get"
  /\ line_q # <<>>
  /\ LET ts == Head(line_q)[1]
         line == Head(line_q)[2]
         r == ProcessJson(line)
     IN /\ line_q' = GetNowait(line_q).q
        /\ t_last' = line
        /\ IF IsSentinel(line)
           THEN /\ tpc' = "exited"
                /\ UNCHANGED <<n_taken, parsed, mqtt_out, db_out>>
           ELSE /\ n_taken' = n_taken + 1
                /\ IF parse = "json"
                   THEN /\ parsed' = IF line = "full" THEN Append(parsed, ts)
                                     ELSE parsed
                        /\ mqtt_out' = IF r.mqtt THEN Append(mqtt_out, NowMs)
                                       ELSE mqtt_out
                        /\ db_out' = IF r.db THEN Append(db_out, NowMs)
                                     ELSE db_out
                        /\ tpc' = IF r.exc = "none" \/ Handled(r.exc)
                                  THEN "loop" ELSE "dead"
                   ELSE /\ tpc' = "loop"
                        /\ UNCHANGED <<parsed, mqtt_out, db_out>>
  /\ UNCHANGED <<tx_started, parse, pushed, clock>>
  /\ UNCHANGED <<connV, runV, stopV, bridgeVars, argV, lineV, envV, partsV>>

\* ----------------------------------------------- BlunoWorker: the run thread
\* p.disconnect() on connection k, and the count of such calls.
Disconnected(k) == [conn EXCEPT ![k] = "closed"]
CountDisc(k) == [ndisc EXCEPT ![k] = @ + 1]

\* _cleanup, lines 215-219: `if self.state.p: self.state.p.disconnect()`,
\* any exception passed over.
CleanupDisc ==
  IF state_p # 0
  THEN conn' = Disconnected(state_p) /\ ndisc' = CountDisc(state_p)
  ELSE UNCHANGED <<conn, ndisc>>

\* A (wrong) _cleanup that keeps the state object.
CleanupKeep == UNCHANGED <<state_p, state_h>>
\* _cleanup, lines 220-221: `finally: self.state = _ConnState()`.
CleanupReset == state_p' = 0 /\ state_h' = 0

\* `while not self.stop_evt.is_set():` of run (line 118); fails is the number
\* of rounds that ended in an exception, which the condition does not read.
RunLoopCondCapped(stop, fails) == ~stop /\ fails < MaxFail
RunLoopCond(stop, fails) == ~stop

\* self.state.p is a Peripheral that is connected: calls through it can work.
LinkUp == state_p # 0 /\ conn[state_p] = "open"

\* The except clauses of run (lines 124-127) name Exception: the round is
\* counted and line 130 is next.
Failed == rpc' = "cl_disc" /\ nfail' = Min(nfail + 1, MaxFail)

\* start() of the worker; run, lines 114-116: the TX thread is started once.
RunStart ==
  /\ rpc = "new"
  /\ rpc' = "while"
  /\ tx_started' = TRUE
  /\ tpc' = "loop"
  /\ UNCHANGED <<r_new, r_line, nfail, sleep_left>>
  /\ UNCHANGED <<t_last, n_taken, parsed, mqtt_out, db_out, parse>>
  /\ UNCHANGED <<connV, stopV, lqV, bridgeVars, argV, lineV, envV, partsV>>

\* Line 118: the loop condition; when it fails line 136 is next.
RunWhile ==
  /\ rpc = "while"
  /\ rpc' = IF RunLoopCond(stop_evt, nfail) THEN "connect" ELSE "fin_disc"
  /\ UNCHANGED <<r_new, r_line, nfail, sleep_left>>
  /\ UNCHANGED <<connV, stopV, txV, lqV, bridgeVars, argV, lineV, envV, partsV>>

\* Line 141, right-hand side: Peripheral(address) connects, or raises.
Connect ==
  /\ rpc = "connect"
  /\ \/ /\ nconn < MaxConn
        /\ nconn' = nconn + 1
        /\ conn' = [conn EXCEPT ![nconn + 1] = "open"]
        /\ r_new' = nconn + 1
        /\ rpc' = "store"
        /\ UNCHANGED nfail
     \/ /\ ~link_ok
        /\ Failed
        /\ UNCHANGED <<nconn, conn, r_new>>
  /\ UNCHANGED <<r_line, sleep_left, state_p, state_h, ndisc>>
  /\ UNCHANGED <<stopV, txV, lqV, bridgeVars, argV, lineV, envV, partsV>>

\* Line 141, the assignment: self.state.p = <the new Peripheral>.
Store ==
  /\ rpc = "store"
  /\ state_p' = r_new
  /\ r_new' = 0
  /\ rpc' = "setup"
  /\ UNCHANGED <<r_line, nfail, sleep_left, state_h, conn, ndisc, nconn>>
  /\ UNCHANGED <<stopV, txV, lqV, bridgeVars, argV, lineV, envV, partsV>>

\* Lines 145-188: the characteristics, password, UART, CCCD and delegate, all
\* through self.state.p: AttributeError when it is None, and any call on the
\* link may raise, before or after handles were stored in self.state.
Setup ==
  /\ rpc = "setup"
  /\ \/ /\ LinkUp
        /\ rpc' = "stream"
        /\ state_h' = state_p
        /\ UNCHANGED nfail
     \/ /\ ~(link_ok /\ LinkUp)
        /\ Failed
        /\ state_h' \in {state_h, state_p}
  /\ UNCHANGED <<r_new, r_line, sleep_left>>
  /\ UNCHANGED <<state_p, conn, ndisc, nconn>>
  /\ UNCHANGED <<stopV, txV, lqV, bridgeVars, argV, lineV, envV, partsV>>

\* _loop_notifications, line 205: the loop condition; when it fails the
\* function returns and run breaks (line 122) to line 136.
StreamCheck ==
  /\ rpc = "stream"
  /\ rpc' = IF stop_evt THEN "fin_disc" ELSE "wait"
  /\ UNCHANGED <<r_new, r_line, nfail, sleep_left>>
  /\ UNCHANGED <<connV, stopV, txV, lqV, bridgeVars, argV, lineV, envV, partsV>>

\* Line 207: waitForNotifications(1.0) times out, raises, or calls the
\* delegate with a line, which enters _enqueue_line: ts = now_ms() and the
\* first put_nowait (lines 225-227).
WaitNotif ==
  /\ rpc = "wait"
  /\ \/ /\ LinkUp
        /\ rpc' = "stream"
        /\ UNCHANGED <<nfail, r_line, line_q, clock>>
     \/ /\ ~(link_ok /\ LinkUp)
        /\ Failed
        /\ UNCHANGED <<r_line, line_q, clock>>
     \/ /\ LinkUp
        /\ clock < MaxLines
        /\ clock' = clock + 1
        /\ \E line \in dev_lines :
             LET item == <<clock + 1, line>>
                 p == PutNowait(line_q, item)
             IN /\ line_q' = p.q
                /\ rpc' = IF p.ok THEN "stream" ELSE "enq_get"
                /\ r_line' = IF p.ok THEN r_line ELSE item
        /\ UNCHANGED nfail
  /\ UNCHANGED <<r_new, sleep_left, pushed>>
  /\ UNCHANGED <<connV, stopV, txV, bridgeVars, argV, lineV, envV, partsV>>

\* _enqueue_line, line 231: get_nowait drops the oldest pair; queue.Empty is
\* passed over (line 233) and the line is lost.
EnqGet ==
  /\ rpc = "enq_get"
  /\ LET g == GetNowait(line_q)
     IN /\ line_q' = g.q
        /\ rpc' = IF g.ok THEN "enq_put2" ELSE "stream"
        /\ r_line' = IF g.ok THEN r_line ELSE <<0, "none">>
  /\ UNCHANGED <<r_new, nfail, sleep_left, pushed, clock>>
  /\ UNCHANGED <<connV, stopV, txV, bridgeVars, argV, lineV, envV, partsV>>

\* _enqueue_line, line 232: the second put_nowait; queue.Full is passed over.
EnqPut2 ==
  /\ rpc = "enq_put2"
  /\ line_q' = PutNowait(line_q, r_line).q
  /\ rpc' = "stream"
  /\ r_line' = <<0, "none">>
  /\ UNCHANGED <<r_new, nfail, sleep_left, pushed, clock>>
  /\ UNCHANGED <<connV, stopV, txV, bridgeVars, argV, lineV, envV, partsV>>

\* _cleanup called by run (lines 130 and 136), its first half.
RunCleanupDisc ==
  /\ rpc \in {"cl_disc", "fin_disc"}
  /\ CleanupDisc
  /\ rpc' = IF rpc = "cl_disc" THEN "cl_reset" ELSE "fin_reset"
  /\ UNCHANGED <<r_new, r_line, nfail, sleep_left, state_p, state_h, nconn>>
  /\ UNCHANGED <<stopV, txV, lqV, bridgeVars, argV, lineV, envV, partsV>>

\* _cleanup called by run, its second half; after line 136 the thread ends.
RunCleanupReset ==
  /\ rpc \in {"cl_reset", "fin_reset"}
  /\ CleanupReset
  /\ rpc' = IF rpc = "cl_reset" THEN "check" ELSE "exited"
  /\ UNCHANGED <<r_new, r_line, nfail, sleep_left, conn, ndisc, nconn>>
  /\ UNCHANGED <<stopV, txV, lqV, bridgeVars, argV, lineV, envV, partsV>>

\* Lines 131-134: `if self.stop_evt.is_set(): break`, else time.sleep begins.
RunCheck ==
  /\ rpc = "check"
  /\ IF stop_evt
     THEN rpc' = "fin_disc" /\ UNCHANGED sleep_left
     ELSE rpc' = "sleep" /\ sleep_left' = SleepTicks
  /\ UNCHANGED <<r_new, r_line, nfail>>
  /\ UNCHANGED <<connV, stopV, txV, lqV, bridgeVars, argV, lineV, envV, partsV>>

\* time.sleep(self.reconnect_interval): time passes.
SleepTick ==
  /\ rpc = "sleep"
  /\ sleep_left > 0
  /\ sleep_left' = sleep_left - 1
  /\ UNCHANGED <<rpc, r_new, r_line, nfail>>
  /\ UNCHANGED <<connV, stopV, txV, lqV, bridgeVars, argV, lineV, envV, partsV>>

\* time.sleep returns when the whole delay has passed; line 118 is next.
SleepEnd ==
  /\ rpc = "sleep"
  /\ sleep_left = 0
  /\ rpc' = "while"
  /\ UNCHANGED <<r_new, r_line, nfail, sleep_left>>
  /\ UNCHANGED <<connV, stopV, txV, lqV, bridgeVars, argV, lineV, envV, partsV>>

\* ------------------------------------------------------ BlunoWorker.stop()
\* Line 103: self.stop_evt.set().
StopSet(s) ==
  /\ spc[s] = "idle"
  /\ stop_evt' = TRUE
  /\ spc' = [spc EXCEPT ![s] = "put"]
  /\ UNCHANGED <<connV, runV, txV, lqV, bridgeVars, argV, lineV, envV, partsV>>

\* Lines 104-109: put_nowait of the sentinel, queue.Full passed over; then
\* the join of the TX thread, which returns after two seconds at the latest.
StopPut(s) ==
  /\ spc[s] = "put"
  /\ line_q' = PutNowait(line_q, <<0, STOP>>).q
  /\ spc' = [spc EXCEPT ![s] = "cl_disc"]
  /\ UNCHANGED <<stop_evt, pushed, clock>>
  /\ UNCHANGED <<connV, runV, txV, bridgeVars, argV, lineV, envV, partsV>>

\* Line 110: _cleanup on the thread that called stop(), its first half.
StopCleanupDisc(s) ==
  /\ spc[s] = "cl_disc"
  /\ CleanupDisc
  /\ spc' = [spc EXCEPT ![s] = "cl_reset"]
  /\ UNCHANGED <<stop_evt, state_p, state_h, nconn>>
  /\ UNCHANGED <<runV, txV, lqV, bridgeVars, argV, lineV, envV, partsV>>

\* Line 110: _cleanup on the thread that called stop(), its second half.
StopCleanupReset(s) ==
  /\ spc[s] = "cl_reset"
  /\ CleanupReset
  /\ spc' = [spc EXCEPT ![s] = "done"]
  /\ UNCHANGED <<stop_evt, conn, ndisc, nconn>>
  /\ UNCHANGED <<runV, txV, lqV, bridgeVars, argV, lineV, envV, partsV>>

BlunoNext ==
  \/ RunStart
  \/ RunWhile
  \/ Connect
  \/ Store
  \/ Setup
  \/ StreamCheck
  \/ WaitNotif
  \/ EnqGet
  \/ EnqPut2
  \/ RunCleanupDisc
  \/ RunCleanupReset
  \/ RunCheck
  \/ SleepTick
  \/ SleepEnd
  \/ \E s \in 1..NumStops : StopSet(s)
  \/ \E s \in 1..NumStops : StopPut(s)
  \/ \E s \in 1..NumStops : StopCleanupDisc(s)
  \/ \E s \in 1..NumStops : StopCleanupReset(s)
  \/ TxLoop
  \/ TxGetEmpty
  \/ TxGet

\* The life cycle: a link on which any call may raise, a device that sends
\* lines of one kind.
InitBluno ==
  /\ BridgeIdle /\ ArgIdle /\ LineInit /\ LineQInit /\ BlunoInit
  /\ dev_lines = {"bad"}
  /\ link_ok = FALSE
  /\ PartsIdle

SpecBluno == InitBluno /\ [][BlunoNext]_vars

\* The line path: a device that sends lines of every kind over a link that
\* stays up until the worker is stopped.
InitDecode ==
  /\ BridgeIdle /\ ArgIdle /\ LineInit /\ LineQInit /\ BlunoInit
  /\ dev_lines = LineKinds
  /\ link_ok = TRUE
  /\ PartsIdle

\* With such a link no round fails before stop() is called, so line 134 is
\* never reached: the steps of time.sleep are left out.
DecodeNext ==
  \/ RunStart
  \/ RunWhile
  \/ Connect
  \/ Store
  \/ Setup
  \/ StreamCheck
  \/ WaitNotif
  \/ EnqGet
  \/ EnqPut2
  \/ RunCleanupDisc
  \/ RunCleanupReset
  \/ RunCheck
  \/ \E s \in 1..NumStops : StopSet(s)
  \/ \E s \in 1..NumStops : StopPut(s)
  \/ \E s \in 1..NumStops : StopCleanupDisc(s)
  \/ \E s \in 1..NumStops : StopCleanupReset(s)
  \/ TxLoop
  \/ TxGetEmpty
  \/ TxGet

SpecDecode == InitDecode /\ [][DecodeNext]_vars

\* ------------------------------------------------ SerialBridge._do_gps
\* What a line is made of: an opening brace, a closing brace, the members of
\* an object (`"lat":1,"lon":2`), any other text; NL is the "\n" the chunks
\* are joined with.
GpsTok == {"{", "}", "kv", "x"}

SeqsUpTo(S, n) == UNION {[1..k -> S] : k \in 0..n}

\* The lines _readline_until can return; the empty one is skipped by
\* `if not line: continue` (line 327).
GpsLines == SeqsUpTo(GpsTok, MaxTok)

\* "\n".join(text_chunks) (line 331).
RECURSIVE JoinNL(_)
JoinNL(chunks) ==
  IF chunks = <<>> THEN <<>>
  ELSE IF Len(chunks) = 1 THEN chunks[1]
  ELSE chunks[1] \o <<"\n">> \o JoinNL(Tail(chunks))

\* str.strip() on a text of tokens: the "\n" are taken off both ends.
RECURSIVE TextLStrip(_)
TextLStrip(t) == IF t # <<>> /\ t[1] = "\n" THEN TextLStrip(Tail(t)) ELSE t
RECURSIVE TextRStrip(_)
TextRStrip(t) ==
  IF t # <<>> /\ t[Len(t)] = "\n" THEN TextRStrip(SubSeq(t, 1, Len(t) - 1))
  ELSE t
TextStrip(t) == TextRStrip(TextLStrip(t))

\* str.rfind(c): the last position of c, 0 for the -1 of Python.
RFind(t, c) ==
  LET at == {i \in 1..Len(t) : t[i] = c}
  IN IF at = {} THEN 0 ELSE CHOOSE i \in at : \A j \in at : j <= i

\* A (wrong) search that looks at the newest line only.
NewestLine(chunks) == IF chunks = <<>> THEN <<>> ELSE chunks[Len(chunks)]

\* txt of line 331: every line read so far, joined and stripped.
SearchText(chunks) == TextStrip(JoinNL(chunks))

\* The members between the braces of a span, white space left out.
Members(span) ==
  SelectSeq(SubSeq(span, 2, Len(span) - 1), LAMBDA c : c # "\n")

\* json.loads(span) on a span that begins with "{" and ends with "}": an
\* object when nothing or one member list stands between the braces, else
\* it raises.
JsonLoads(span) ==
  IF Members(span) = <<>> THEN "empty_object"
  ELSE IF Members(span) = <<"kv">> THEN "object"
  ELSE "raises"

\* Lines 332-337 on txt: "none" when no span is found (the loop goes on),
\* else what json.loads gives for txt[i0:i1+1].
Candidate(txt) ==
  LET i0 == RFind(txt, "{")
      i1 == RFind(txt, "}")
  IN IF i0 # 0 /\ i1 # 0 /\ i1 > i0 THEN JsonLoads(SubSeq(txt, i0, i1))
     ELSE "none"

\* Lines 321-324: the query is written, the deadline set, nothing read yet.
GpsStarted == [pc |-> "read", chunks |-> <<>>, res |-> "pending", timed |-> FALSE]

\* _readline_until returns a line before the deadline (lines 325-337): an
\* empty one is skipped; else it is appended and the joined text searched;
\* a span that parses is returned, one that does not makes the method
\* return None (`except Exception: return None`).
GpsLine(line) ==
  /\ gps.pc = "read"
  /\ Len(gps.chunks) < MaxGpsLines
  /\ LET chunks == IF line = <<>> THEN gps.chunks ELSE Append(gps.chunks, line)
         c == IF line = <<>> THEN "none" ELSE Candidate(SearchText(chunks))
     IN gps' = [gps EXCEPT
                  !.chunks = chunks,
                  !.pc = IF c = "none" THEN "read" ELSE "done",
                  !.res = IF c = "none" THEN "pending"
                          ELSE IF c = "raises" THEN "absent" ELSE c]
  /\ UNCHANGED <<bridgeVars, argV, lineV, lqV, blunoV>>
  /\ UNCHANGED <<col, pub, cccd, gap, ble, rec, moreV>>

\* The deadline passes: _readline_until returns None, `continue`, the loop
\* condition fails and line 338 returns None.
GpsDeadline ==
  /\ gps.pc = "read"
  /\ gps' = [gps EXCEPT !.pc = "done", !.res = "absent", !.timed = TRUE]
  /\ UNCHANGED <<bridgeVars, argV, lineV, lqV, blunoV>>
  /\ UNCHANGED <<col, pub, cccd, gap, ble, rec, moreV>>

GpsNext == (\E line \in GpsLines : GpsLine(line)) \/ GpsDeadline

InitGps ==
  /\ BridgeIdle /\ ArgIdle /\ LineInit /\ LineQInit /\ BlunoIdle
  /\ gps = GpsStarted
  /\ ColIdle /\ PubIdle /\ CccdIdle /\ GapIdle /\ BleIdle /\ RecIdle /\ MoreIdle

SpecGps == InitGps /\ [][GpsNext]_vars

\* ---------------- the collection loop of _do_at, _do_direct_command,
\* ---------------- _do_health_command (lines 346-359, 363-375, 383-395)
\* Times are in ms, counted from the entry to the loop.
ColKinds == {"AT", "DIRECT", "HEALTH"}

\* The floor of the read window: max(self.AT_MIN_TIMEOUT_S, read_timeout) of
\* line 346, max(8.0, read_timeout) of lines 363 and 383.
ColWindowMs(kind, read_timeout) ==
  IF kind = "AT" THEN Max(AT_MIN_TIMEOUT_MS, read_timeout)
  ELSE Max(DIRECT_MIN_MS, read_timeout)

\* How long after the previous one the peer's next line is complete.
LineGaps == {100, 300}

\* _readline_until(deadline) called at `now` (lines 127-140): it polls until
\* a line is complete or time.time() >= deadline, and returns None in the
\* second case only.  arrival is the time the next line would be complete,
\* 0 when the peer sends no more.
ReadlineUntil(now, deadline, arrival) ==
  IF arrival # 0 /\ arrival < deadline
  THEN [line |-> TRUE, at |-> arrival]
  ELSE [line |-> FALSE, at |-> Max(now, deadline)]

\* `end = time.time() + max(...)`, `lines = []`, `last = time.time()`.
ColStarted(kind, read_timeout) ==
  [pc |-> "loop", kind |-> kind, end |-> ColWindowMs(kind, read_timeout),
   now |-> 0, last |-> 0, n |-> 0]

\* One round of `while time.time() < end:` in which _readline_until(end)
\* returns a line: it is appended and `last` set.
ColLine(g) ==
  /\ col.pc = "loop"
  /\ col.now < col.end
  /\ col.n < MaxResp
  /\ LET r == ReadlineUntil(col.now, col.end, col.now + g)
     IN /\ r.line
        /\ col' = [col EXCEPT !.now = r.at, !.last = r.at, !.n = col.n + 1]
  /\ UNCHANGED <<bridgeVars, argV, lineV, lqV, blunoV>>
  /\ UNCHANGED <<gps, pub, cccd, gap, ble, rec, moreV>>

\* One round in which _readline_until(end) returns None: `break` when lines
\* were collected and the last is older than the quiet period, `continue`
\* otherwise; the loop condition is read again.
ColNone ==
  /\ col.pc = "loop"
  /\ col.now < col.end
  /\ LET r == ReadlineUntil(col.now, col.end, 0)
         brk == col.n > 0 /\ r.at - col.last > QUIET_MS
     IN /\ ~r.line
        /\ col' = [col EXCEPT
                     !.now = r.at,
                     !.pc = IF brk \/ ~(r.at < col.end) THEN "done" ELSE "loop"]
  /\ UNCHANGED <<bridgeVars, argV, lineV, lqV, blunoV>>
  /\ UNCHANGED <<gps, pub, cccd, gap, ble, rec, moreV>>

ColNext == (\E g \in LineGaps : ColLine(g)) \/ ColNone

InitCol ==
  /\ BridgeIdle /\ ArgIdle /\ LineInit /\ LineQInit /\ BlunoIdle
  /\ \E kind \in ColKinds : \E t \in ArgChoices(kind) :
       col = ColStarted(kind, t)
  /\ GpsIdle /\ PubIdle /\ CccdIdle /\ GapIdle /\ BleIdle /\ RecIdle /\ MoreIdle

SpecCol == InitCol /\ [][ColNext]_vars

\* -------------------------------------- SerialBridge._do_publish_sync
\* The arguments of the five _write_line calls, in the order of lines
\* 401-409.
PublishLines(topic, payload) ==
  <<"<<<TOPIC>>>", topic, "<<<PAYLOAD>>>", payload, "<<<END>>>">>

Topics == {"t1", "t2"}
Payloads == {"p1", "p2"}

\* What the peer may send back while or after the lines are written.
Acks == {"OK", "ERR"}

\* Entry to _do_publish_sync: nothing written; out are the lines written,
\* sent the lines the peer has sent (history), unread those of them still
\* in the input buffer.
PubStarted(topic, payload) ==
  [pc |-> "write", topic |-> topic, payload |-> payload, out |-> <<>>,
   sent |-> <<>>, unread |-> <<>>, res |-> "pending"]

\* A (wrong) end that waits for the acknowledgment line and reports it.
PublishReturnAcked(p) ==
  [p EXCEPT !.pc = IF p.unread = <<>> THEN "write" ELSE "done",
            !.res = IF p.unread = <<>> THEN "pending"
                    ELSE IF Head(p.unread) = "OK" THEN "True" ELSE "False",
            !.unread = IF p.unread = <<>> THEN <<>> ELSE Tail(p.unread)]

\* `return True` (line 411).
PublishReturn(p) == [p EXCEPT !.pc = "done", !.res = "True"]

\* One _write_line (lines 120-125) of the five, the pause after it included.
PubWrite ==
  /\ pub.pc = "write"
  /\ Len(pub.out) < Len(PublishLines(pub.topic, pub.payload))
  /\ pub' = [pub EXCEPT !.out =
               Append(pub.out,
                      PublishLines(pub.topic, pub.payload)[Len(pub.out) + 1])]
  /\ UNCHANGED <<bridgeVars, argV, lineV, lqV, blunoV>>
  /\ UNCHANGED <<gps, col, cccd, gap, ble, rec, moreV>>

\* write or flush raises: the exception leaves _do_publish_sync.
PubWriteFail ==
  /\ pub.pc = "write"
  /\ Len(pub.out) < Len(PublishLines(pub.topic, pub.payload))
  /\ pub' = [pub EXCEPT !.pc = "raised", !.res = "raised"]
  /\ UNCHANGED <<bridgeVars, argV, lineV, lqV, blunoV>>
  /\ UNCHANGED <<gps, col, cccd, gap, ble, rec, moreV>>

\* After the fifth write the method returns.
PubReturn ==
  /\ pub.pc = "write"
  /\ Len(pub.out) = Len(PublishLines(pub.topic, pub.payload))
  /\ pub' = PublishReturn(pub)
  /\ UNCHANGED <<bridgeVars, argV, lineV, lqV, blunoV>>
  /\ UNCHANGED <<gps, col, cccd, gap, ble, rec, moreV>>

\* The peer sends a line.
PubPeer(ack) ==
  /\ pub.pc \in {"write", "done"}
  /\ Len(pub.sent) < MaxAcks
  /\ pub' = [pub EXCEPT !.sent = Append(pub.sent, ack),
                        !.unread = Append(pub.unread, ack)]
  /\ UNCHANGED <<bridgeVars, argV, lineV, lqV, blunoV>>
  /\ UNCHANGED <<gps, col, cccd, gap, ble, rec, moreV>>

PubNext ==
  \/ PubWrite
  \/ PubWriteFail
  \/ PubReturn
  \/ \E ack \in Acks : PubPeer(ack)

InitPub ==
  /\ BridgeIdle /\ ArgIdle /\ LineInit /\ LineQInit /\ BlunoIdle
  /\ \E topic \in Topics : \E payload \in Payloads :
       pub = PubStarted(topic, payload)
  /\ GpsIdle /\ ColIdle /\ CccdIdle /\ GapIdle /\ BleIdle /\ RecIdle /\ MoreIdle

SpecPub == InitPub /\ [][PubNext]_vars

\* ------------------------------------------- BlunoWorker._find_cccd
\* Handles the notify characteristic may have.
CharHandles == {10, 20}

\* The descriptors of the device near a characteristic of handle h: up to
\* MaxDesc of them in rising order of handle, each a Client Characteristic
\* Configuration descriptor or another one; the handles go one past the
\* range that is scanned.
DescHandles(h) == h..(h + CCCD_SCAN_SPAN + 1)
Descriptor(h) == [handle : DescHandles(h), cccd : BOOLEAN]
Rising(t) == \A i \in 1..(Len(t) - 1) : t[i].handle < t[i + 1].handle
DescTables(h) == {t \in SeqsUpTo(Descriptor(h), MaxDesc) : Rising(t)}

\* p.getDescriptors(startHnd=lo, endHnd=hi): the descriptors whose handle is
\* in the range, in the order of the device.
GetDescriptors(table, lo, hi) ==
  SelectSeq(table, LAMBDA d : lo <= d.handle /\ d.handle <= hi)

\* A (wrong) fallback: the handle of the characteristic itself.
FallbackSame(h) == h

\* `return char.getHandle() + 1` (line 201).
Fallback(h) == h + 1

\* _find_cccd(char) for a characteristic of handle h; raises tells whether
\* getDescriptors raises (`except Exception: pass`).
FindCccd(h, table, raises) ==
  LET ds == GetDescriptors(table, h, h + CCCD_SCAN_SPAN)
      hits == {i \in 1..Len(ds) : ds[i].cccd}
  IN IF raises \/ hits = {} THEN Fallback(h)
     ELSE ds[CHOOSE i \in hits : \A j \in hits : i <= j].handle

CccdCall ==
  /\ cccd.pc = "call"
  /\ cccd' = [cccd EXCEPT !.pc = "done",
                          !.res = FindCccd(cccd.h, cccd.table, cccd.raises)]
  /\ UNCHANGED <<bridgeVars, argV, lineV, lqV, blunoV>>
  /\ UNCHANGED <<gps, col, pub, gap, ble, rec, moreV>>

InitCccd ==
  /\ BridgeIdle /\ ArgIdle /\ LineInit /\ LineQInit /\ BlunoIdle
  /\ \E h \in CharHandles : \E table \in DescTables(h) : \E raises \in BOOLEAN :
       cccd = [pc |-> "call", h |-> h, table |-> table, raises |-> raises,
               res |-> 0]
  /\ GpsIdle /\ ColIdle /\ PubIdle /\ GapIdle /\ BleIdle /\ RecIdle /\ MoreIdle

SpecCccd == InitCccd /\ [][CccdCall]_vars

\* ------------------------ _serial_worker: the gap between two commands
\* Times are in ms.  What time.time() can advance by between two points of
\* the worker's loop.
Delays == {0, 100, 300, 600}

\* How the protocol of a dequeued request can end (lines 269-305).
Outcomes == {"ok", "retried", "degraded"}

\* A (wrong) gap that is the same for every kind.
NeedGapFast(kind) == GAP_FAST_MS

\* need_gap of line 264.
NeedGap(kind) == IF kind = "PUBLISH" THEN GAP_PUBLISH_MS ELSE GAP_FAST_MS

\* __init__ sets _last_io_ts = 0.0 (line 60); the worker starts at some
\* reading of the clock.
GapStarted(t) ==
  [pc |-> "idle", now |-> t, last |-> 0, kind |-> "none", first |-> 0,
   out |-> "none", n |-> 0]

\* Lines 242-259: a request is dequeued d ms after the last one was
\* completed, the wait and the drain of the warm-up included.
GapGet(kind, d) ==
  /\ gap.pc = "idle"
  /\ gap.n < MaxGapReq
  /\ gap' = [gap EXCEPT !.pc = "gap", !.kind = kind, !.now = gap.now + d,
                        !.out = "none"]
  /\ UNCHANGED <<bridgeVars, argV, lineV, lqV, blunoV>>
  /\ UNCHANGED <<gps, col, pub, cccd, ble, rec, moreV>>

\* Lines 262-266: now, gap, need_gap, and time.sleep(need_gap - gap) when the
\* gap is too short.
GapSleep ==
  /\ gap.pc = "gap"
  /\ LET g == gap.now - gap.last
         need == NeedGap(gap.kind)
     IN gap' = [gap EXCEPT !.pc = "exec",
                           !.now = IF g < need THEN gap.now + (need - g)
                                   ELSE gap.now]
  /\ UNCHANGED <<bridgeVars, argV, lineV, lqV, blunoV>>
  /\ UNCHANGED <<gps, col, pub, cccd, ble, rec, moreV>>

\* The first _write_line of the first attempt.
GapFirstWrite ==
  /\ gap.pc = "exec"
  /\ gap' = [gap EXCEPT !.pc = "run", !.first = gap.now]
  /\ UNCHANGED <<bridgeVars, argV, lineV, lqV, blunoV>>
  /\ UNCHANGED <<gps, col, pub, cccd, ble, rec, moreV>>

\* The rest of lines 269-305: the protocol, the recovery and the retry when
\* the first attempt raised, the degraded reply when the second did.
GapRun(out, d) ==
  /\ gap.pc = "run"
  /\ gap' = [gap EXCEPT !.pc = "done", !.out = out, !.now = gap.now + d]
  /\ UNCHANGED <<bridgeVars, argV, lineV, lqV, blunoV>>
  /\ UNCHANGED <<gps, col, pub, cccd, ble, rec, moreV>>

\* Lines 307-308: task_done() and self._last_io_ts = time.time().
GapDone ==
  /\ gap.pc = "done"
  /\ gap' = [gap EXCEPT !.pc = "idle", !.last = gap.now, !.n = gap.n + 1]
  /\ UNCHANGED <<bridgeVars, argV, lineV, lqV, blunoV>>
  /\ UNCHANGED <<gps, col, pub, cccd, ble, rec, moreV>>

GapNext ==
  \/ \E kind \in Kinds : \E d \in Delays : GapGet(kind, d)
  \/ GapSleep
  \/ GapFirstWrite
  \/ \E out \in Outcomes : \E d \in Delays : GapRun(out, d)
  \/ GapDone

InitGap ==
  /\ BridgeIdle /\ ArgIdle /\ LineInit /\ LineQInit /\ BlunoIdle
  /\ \E t \in Delays : gap = GapStarted(t)
  /\ GpsIdle /\ ColIdle /\ PubIdle /\ CccdIdle /\ BleIdle /\ RecIdle /\ MoreIdle

SpecGap == InitGap /\ [][GapNext]_vars

\* ---------------------------------- BlunoWorker._connect_to_ble, step by step
\* What a step that talks to the device can raise: the error of the library
\* (BTLEException), or another exception (the encode("ascii") of lines 156
\* and 165 on a string that is not ASCII).
WriteOutcomes == {"ok", "BTLEException", "other"}

\* `except Exception` of the password and UART writes (lines 159, 168).
BestEffortCaught(exc) == exc \in {"BTLEException", "other"}

\* A (wrong) loop over the two values with no handler.
CccdCaughtNone(exc) == FALSE

\* `except BTLEException` of the loop over the two values (line 183).
CccdCaught(exc) == exc = "BTLEException"

\* What writeCharacteristic on the descriptor can do: succeed, or raise the
\* error of the library.
CccdOutcomes == {"ok", "BTLEException"}

\* The Peripheral is connected (line 141); the configuration of the worker
\* and the device: a password and a UART string are configured or not, the
\* notify characteristic exists or not, has NOTIFY or not.  log is what was
\* done on the device, in order.
BleStarted(pw, uart, found, notify) ==
  [pc |-> "resolve", pw |-> pw, uart |-> uart, found |-> found,
   notify |-> notify, log |-> <<>>, failed |-> {}]

BleStep(pc2, entry, fails) ==
  [ble EXCEPT !.pc = pc2,
              !.log = Append(ble.log, entry),
              !.failed = IF fails THEN ble.failed \cup {entry} ELSE ble.failed]

\* Lines 145-146: getCharacteristics(uuid=...)[0]; an empty list raises.
BleResolve ==
  /\ ble.pc = "resolve"
  /\ ble' = [ble EXCEPT !.pc = IF ble.found THEN "pw" ELSE "raised"]
  /\ UNCHANGED <<bridgeVars, argV, lineV, lqV, blunoV>>
  /\ UNCHANGED <<gps, col, pub, cccd, gap, rec, moreV>>

\* Lines 153-160: the password is written to the command characteristic when
\* one is configured; an exception is logged and passed over.
BlePassword(out) ==
  /\ ble.pc = "pw"
  /\ IF ble.pw
     THEN ble' = BleStep(IF out = "ok" \/ BestEffortCaught(out) THEN "uart"
                         ELSE "raised", "pw", out # "ok")
     ELSE out = "ok" /\ ble' = [ble EXCEPT !.pc = "uart"]
  /\ UNCHANGED <<bridgeVars, argV, lineV, lqV, blunoV>>
  /\ UNCHANGED <<gps, col, pub, cccd, gap, rec, moreV>>

\* Lines 162-169: the same for the UART string.
BleUart(out) ==
  /\ ble.pc = "uart"
  /\ IF ble.uart
     THEN ble' = BleStep(IF out = "ok" \/ BestEffortCaught(out) THEN "check"
                         ELSE "raised", "uart", out # "ok")
     ELSE out = "ok" /\ ble' = [ble EXCEPT !.pc = "check"]
  /\ UNCHANGED <<bridgeVars, argV, lineV, lqV, blunoV>>
  /\ UNCHANGED <<gps, col, pub, cccd, gap, rec, moreV>>

\* Lines 172-175: without NOTIFY among the properties RuntimeError is
\* raised; else _find_cccd resolves the handle.
BleCheck ==
  /\ ble.pc = "check"
  /\ ble' = BleStep(IF ble.notify THEN "cccd1" ELSE "raised", "check", FALSE)
  /\ UNCHANGED <<bridgeVars, argV, lineV, lqV, blunoV>>
  /\ UNCHANGED <<gps, col, pub, cccd, gap, rec, moreV>>

\* Lines 176-185, value 0x0001: written with response; success breaks out of
\* the loop, BTLEException goes on to the second value.
BleCccdFirst(out) ==
  /\ ble.pc = "cccd1"
  /\ ble' = BleStep(IF out = "ok" THEN "delegate"
                    ELSE IF CccdCaught(out) THEN "cccd3" ELSE "raised",
                    "cccd1", out # "ok")
  /\ UNCHANGED <<bridgeVars, argV, lineV, lqV, blunoV>>
  /\ UNCHANGED <<gps, col, pub, cccd, gap, rec, moreV>>

\* Lines 176-185, value 0x0003.
BleCccdSecond(out) ==
  /\ ble.pc = "cccd3"
  /\ ble' = BleStep(IF out = "ok" \/ CccdCaught(out) THEN "delegate"
                    ELSE "raised", "cccd3", out # "ok")
  /\ UNCHANGED <<bridgeVars, argV, lineV, lqV, blunoV>>
  /\ UNCHANGED <<gps, col, pub, cccd, gap, rec, moreV>>

\* Line 188: setDelegate; _connect_to_ble returns and run enters
\* _loop_notifications.
BleDelegate ==
  /\ ble.pc = "delegate"
  /\ ble' = BleStep("streaming", "delegate", FALSE)
  /\ UNCHANGED <<bridgeVars, argV, lineV, lqV, blunoV>>
  /\ UNCHANGED <<gps, col, pub, cccd, gap, rec, moreV>>

BleNext ==
  \/ BleResolve
  \/ \E out \in WriteOutcomes : BlePassword(out)
  \/ \E out \in WriteOutcomes : BleUart(out)
  \/ BleCheck
  \/ \E out \in CccdOutcomes : BleCccdFirst(out)
  \/ \E out \in CccdOutcomes : BleCccdSecond(out)
  \/ BleDelegate

InitBle ==
  /\ BridgeIdle /\ ArgIdle /\ LineInit /\ LineQInit /\ BlunoIdle
  /\ \E pw, uart, found, notify \in BOOLEAN :
       ble = BleStarted(pw, uart, found, notify)
  /\ GpsIdle /\ ColIdle /\ PubIdle /\ CccdIdle /\ GapIdle /\ RecIdle /\ MoreIdle

SpecBle == InitBle /\ [][BleNext]_vars

\* ------------- one line from _enqueue_line to the records of _tx_worker
\* now is now_ms(); ts the timestamp _enqueue_line paired with the line; kw
\* the values of the ts_ms keyword the record constructors were called
\* with, in order; mqtt and db the timestamps of the records put on
\* mqtt_queue and db_queue.
RecStarted ==
  [pc |-> "idle", now |-> 0, ts |-> 0, kw |-> <<>>, mqtt |-> <<>>, db |-> <<>>]

\* Time passes while the line waits or is processed.
RecTick ==
  /\ rec.pc \in {"idle", "queued", "taken"}
  /\ rec.now < MaxRecClock
  /\ rec' = [rec EXCEPT !.now = rec.now + 1]
  /\ UNCHANGED <<bridgeVars, argV, lineV, lqV, blunoV>>
  /\ UNCHANGED <<gps, col, pub, cccd, gap, ble, moreV>>

\* _enqueue_line (lines 224-227): ts = now_ms(), put_nowait((ts, line)).
RecEnqueue ==
  /\ rec.pc = "idle"
  /\ rec' = [rec EXCEPT !.pc = "queued", !.ts = rec.now]
  /\ UNCHANGED <<bridgeVars, argV, lineV, lqV, blunoV>>
  /\ UNCHANGED <<gps, col, pub, cccd, gap, ble, moreV>>

\* _tx_worker, line 245: ts_ms, line = self._q.get(timeout=1.0).
RecTake ==
  /\ rec.pc = "queued"
  /\ rec' = [rec EXCEPT !.pc = "taken"]
  /\ UNCHANGED <<bridgeVars, argV, lineV, lqV, blunoV>>
  /\ UNCHANGED <<gps, col, pub, cccd, gap, ble, moreV>>

\* Lines 253-281 on a line that holds a full record: the keywords of
\* MQTTQueueItem are evaluated, ts_ms=now_ms() among them, and the
\* constructor called; when it returns the record is put and the same is
\* done for SQLiteDatabaseItem.  An exception other than JSONDecodeError
\* ends the thread.
RecBuild ==
  /\ rec.pc = "taken"
  /\ LET r == ProcessJson("full")
         second == Construct(MQTT_FIELDS, MQTT_REQUIRED, RecordKwargs) = "ok"
     IN rec' = [rec EXCEPT
                  !.pc = IF r.exc = "none" \/ Handled(r.exc) THEN "loop"
                         ELSE "dead",
                  !.kw = IF second THEN <<rec.now, rec.now>> ELSE <<rec.now>>,
                  !.mqtt = IF r.mqtt THEN <<rec.now>> ELSE <<>>,
                  !.db = IF r.db THEN <<rec.now>> ELSE <<>>]
  /\ UNCHANGED <<bridgeVars, argV, lineV, lqV, blunoV>>
  /\ UNCHANGED <<gps, col, pub, cccd, gap, ble, moreV>>

RecNext == RecTick \/ RecEnqueue \/ RecTake \/ RecBuild

InitRec ==
  /\ BridgeIdle /\ ArgIdle /\ LineInit /\ LineQInit /\ BlunoIdle
  /\ rec = RecStarted
  /\ GpsIdle /\ ColIdle /\ PubIdle /\ CccdIdle /\ GapIdle /\ BleIdle /\ MoreIdle

SpecRec == InitRec /\ [][RecNext]_vars

\* ------------------------------------------- the bridge while it stays open
\* The daemon worker thread is scheduled for as long as the process lives, and
\* each of its steps is bounded (queue get 0.5 s, port read 1 s, port write
\* 2 s, fixed sleeps), so a step it can take is eventually taken.  close() is
\* not called in this specification.
WorkerStep ==
  \/ WorkerLoop
  \/ WorkerGet
  \/ WorkerGetEmpty
  \/ WorkerWarmup
  \/ WorkerIo
  \/ WorkerReply
  \/ WorkerExcept

OpenNext ==
  \/ \E c \in Callers : Call(c)
  \/ \E c \in Callers : PutOk(c)
  \/ \E c \in Callers : PutTimeout(c)
  \/ \E c \in Callers : GetReply(c)
  \/ \E c \in Callers : GetTimeout(c)
  \/ WorkerLoop
  \/ WorkerGet
  \/ WorkerGetEmpty
  \/ WorkerWarmup
  \/ WorkerIo
  \/ WorkerReply
  \/ WorkerExcept

SpecOpen == Init /\ [][OpenNext]_vars /\ WF_vars(WorkerStep)

\* ------------------------------------- two requests in a row on one link
\* The unread input of the port over two requests the worker serves one after
\* the other.  The port was opened and warmed up before the first one, so its
\* input starts empty (_open_serial, lines 94-99; _drain_for, line 257).  Each
\* line the peer sends carries the number of the request written last when
\* it was sent.
SinKinds == {"PING", "PUBLISH", "DIRECT"}
\* What the peer answers to a request of each kind: the token PONG to a
\* probe, its acknowledgment to a publish, lines of text to a direct command.
PeerLines(kind) ==
  CASE kind = "PING" -> {"PONG"}
    [] kind = "PUBLISH" -> {"OK"}
    [] kind = "DIRECT" -> {"text", "OK"}

SinStarted ==
  {[pc |-> "write", req |-> 1, kind |-> <<k1, k2>>, inq |-> <<>>, wrote |-> 0,
    got |-> <<>>, res |-> "none", retried |-> FALSE, n |-> 0] :
     k1 \in SinKinds, k2 \in SinKinds}

\* re.compile(r"\bPONG\b", re.I).search(line), line 315.
MatchesPong(text) == text = "PONG"

\* The request returns: task_done and _last_io_ts (lines 307-308).
SinReturn(s, val) ==
  [s EXCEPT !.res = val, !.pc = IF s.req = 1 THEN "between" ELSE "done"]

\* The first _write_line of the protocol (lines 314, 362, 401).  PUBLISH
\* writes its five lines and returns True without reading (lines 401-411);
\* PING and DIRECT go on to read.
SinWrite ==
  /\ sin.pc = "write"
  /\ LET w == [sin EXCEPT !.wrote = sin.req]
     IN sin' = IF sin.kind[sin.req] = "PUBLISH"
               THEN SinReturn(w, "True")
               ELSE [w EXCEPT !.pc = "read"]
  /\ UNCHANGED <<bridgeVars, argV, lineV, lqV, blunoV>>
  /\ UNCHANGED <<gps, col, pub, cccd, gap, ble, rec, rdl, dlg>>

\* The first write raises: the except clause of the first attempt runs
\* _recover_serial, whose _open_serial resets the input buffer (line 96), and
\* the loop goes round.
SinRecover ==
  /\ sin.pc = "write"
  /\ ~sin.retried
  /\ sin' = [sin EXCEPT !.retried = TRUE, !.inq = <<>>]
  /\ UNCHANGED <<bridgeVars, argV, lineV, lqV, blunoV>>
  /\ UNCHANGED <<gps, col, pub, cccd, gap, ble, rec, rdl, dlg>>

\* _readline_until returns the oldest unread line of the port.  _do_ping
\* (_expect, lines 146-153) returns at the first line that matches and passes
\* over the others; _do_direct_command appends every line (lines 366-374).
SinRead ==
  /\ sin.pc = "read"
  /\ sin.inq # <<>>
  /\ LET line == Head(sin.inq)
         s == [sin EXCEPT !.inq = Tail(sin.inq)]
     IN sin' = IF s.kind[s.req] = "PING"
               THEN IF MatchesPong(line.text)
                    THEN SinReturn([s EXCEPT !.got = <<line>>], "True")
                    ELSE s
               ELSE [s EXCEPT !.got = Append(s.got, line)]
  /\ UNCHANGED <<bridgeVars, argV, lineV, lqV, blunoV>>
  /\ UNCHANGED <<gps, col, pub, cccd, gap, ble, rec, rdl, dlg>>

\* No line is left and the deadline (or, for DIRECT with lines collected, the
\* quiet period) comes: _do_ping returns False, _do_direct_command the lines
\* joined.
SinDeadline ==
  /\ sin.pc = "read"
  /\ sin.inq = <<>>
  /\ sin' = SinReturn(sin, IF sin.kind[sin.req] = "PING" THEN "False"
                           ELSE IF sin.got = <<>> THEN "" ELSE "text")
  /\ UNCHANGED <<bridgeVars, argV, lineV, lqV, blunoV>>
  /\ UNCHANGED <<gps, col, pub, cccd, gap, ble, rec, rdl, dlg>>

\* Lines 240-266 for the next request: get, no warm-up (the window of the
\* open has passed), the gap sleep.  Nothing reads or resets the input.
SinBetween ==
  /\ sin.pc = "between"
  /\ sin' = [sin EXCEPT !.pc = "write", !.req = 2, !.got = <<>>,
                        !.res = "none", !.retried = FALSE]
  /\ UNCHANGED <<bridgeVars, argV, lineV, lqV, blunoV>>
  /\ UNCHANGED <<gps, col, pub, cccd, gap, ble, rec, rdl, dlg>>

\* The peer sends a line in answer to what it was sent: at any time after the
\* first write, also after the request it answers has returned.
SinPeer ==
  /\ sin.pc # "off"
  /\ sin.wrote >= 1
  /\ sin.n < MaxPeer
  /\ \E t \in PeerLines(sin.kind[sin.wrote]) :
       sin' = [sin EXCEPT !.inq = Append(sin.inq, [text |-> t, after |-> sin.wrote]),
                          !.n = sin.n + 1]
  /\ UNCHANGED <<bridgeVars, argV, lineV, lqV, blunoV>>
  /\ UNCHANGED <<gps, col, pub, cccd, gap, ble, rec, rdl, dlg>>

SinNext ==
  \/ SinWrite
  \/ SinRecover
  \/ SinRead
  \/ SinDeadline
  \/ SinBetween
  \/ SinPeer

InitSin ==
  /\ BridgeIdle /\ ArgIdle /\ LineInit /\ LineQInit /\ BlunoIdle
  /\ sin \in SinStarted
  /\ GpsIdle /\ ColIdle /\ PubIdle /\ CccdIdle /\ GapIdle /\ BleIdle /\ RecIdle
  /\ RdlIdle /\ DlgIdle

SpecSin == InitSin /\ [][SinNext]_vars

\* --------------------------------------- calls in a row of _readline_until
\* The bytes of the port over consecutive calls of the read helper, as _expect
\* and the collection loops make them.  `inp` holds the bytes that have come
\* in and are unread, `took` the bytes the running call has read, `out` what
\* each finished call returned and the bytes it had read.
RdlStarted ==
  [pc |-> "loop", call |-> 1, buf |-> <<>>, inp |-> <<>>, took |-> <<>>,
   out |-> <<>>, n |-> 0]

\* str.rstrip("\r"), line 136.
RECURSIVE RStripCR(_)
RStripCR(t) ==
  IF t # <<>> /\ t[Len(t)] = 13 THEN RStripCR(SubSeq(t, 1, Len(t) - 1)) ELSE t

\* A (wrong) helper that keeps its buffer from one call to the next.
CarriedBuf(old) == old
\* `buf = bytearray()`, line 130: each call begins with an empty buffer.
FreshBuf(old) == <<>>

\* The call returns val; the caller's loop calls again.
RdlReturn(s, val) ==
  [s EXCEPT !.out = Append(s.out, [res |-> val, took |-> s.took]),
            !.took = <<>>,
            !.buf = FreshBuf(s.buf),
            !.call = s.call + 1,
            !.pc = IF s.call < MaxCalls THEN "loop" ELSE "done"]

\* The peer's next byte reaches the port.
RdlArrive ==
  /\ rdl.pc = "loop"
  /\ rdl.n < MaxBytes
  /\ \E b \in Bytes :
       rdl' = [rdl EXCEPT !.inp = Append(rdl.inp, b), !.n = rdl.n + 1]
  /\ UNCHANGED <<bridgeVars, argV, lineV, lqV, blunoV>>
  /\ UNCHANGED <<gps, col, pub, cccd, gap, ble, rec, sin, dlg>>

\* Lines 131-137: `b = self._ser.read(1)` returns a byte; the terminator ends
\* the call with the buffer decoded and stripped of "\r", any other byte is
\* appended to the buffer.
RdlRead ==
  /\ rdl.pc = "loop"
  /\ rdl.inp # <<>>
  /\ LET b == Head(rdl.inp)
         r == [rdl EXCEPT !.inp = Tail(rdl.inp), !.took = Append(rdl.took, b)]
     IN rdl' = IF b = NL
               THEN RdlReturn(r, [none |-> FALSE,
                                  line |-> RStripCR(Decode(r.buf))])
               ELSE [r EXCEPT !.buf = Append(rdl.buf, b)]
  /\ UNCHANGED <<bridgeVars, argV, lineV, lqV, blunoV>>
  /\ UNCHANGED <<gps, col, pub, cccd, gap, ble, rec, sin, dlg>>

\* Lines 131 and 140: `while time.time() < deadline` fails, `return None`.
RdlDeadline ==
  /\ rdl.pc = "loop"
  /\ rdl' = RdlReturn(rdl, [none |-> TRUE, line |-> <<>>])
  /\ UNCHANGED <<bridgeVars, argV, lineV, lqV, blunoV>>
  /\ UNCHANGED <<gps, col, pub, cccd, gap, ble, rec, sin, dlg>>

RdlNext == RdlArrive \/ RdlRead \/ RdlDeadline

InitRdl ==
  /\ BridgeIdle /\ ArgIdle /\ LineInit /\ LineQInit /\ BlunoIdle
  /\ rdl = RdlStarted
  /\ GpsIdle /\ ColIdle /\ PubIdle /\ CccdIdle /\ GapIdle /\ BleIdle /\ RecIdle
  /\ SinIdle /\ DlgIdle

SpecRdl == InitRdl /\ [][RdlNext]_vars

\* ------------------------- the reassembly buffer over a worker's connections
\* The delegate's buffer and the line queue _q over the connections one
\* worker makes.  `rx` holds, per connection, the bytes notified on it; the
\* lines are few enough for _q (capacity LineQMax at least) never to be full,
\* and the TX thread is left out.
DlgStarted ==
  [pc |-> "down", buf |-> <<>>, q |-> <<>>, rx |-> <<>>, n |-> 0]

\* A (wrong) connect that hands the old delegate's buffer to the new one.
DelegateBufKept(old) == old
\* _LineDelegate.__init__, line 37: `self._buf = bytearray()`.
DelegateBuf(old) == <<>>

\* _connect_to_ble succeeds: line 188 installs a new _LineDelegate on the new
\* Peripheral.  _q is not touched.
DlgConnect ==
  /\ dlg.pc = "down"
  /\ Len(dlg.rx) < MaxConn
  /\ dlg' = [dlg EXCEPT !.pc = "up", !.buf = DelegateBuf(dlg.buf),
                        !.rx = Append(dlg.rx, <<>>)]
  /\ UNCHANGED <<bridgeVars, argV, lineV, lqV, blunoV>>
  /\ UNCHANGED <<gps, col, pub, cccd, gap, ble, rec, sin, rdl>>

\* waitForNotifications calls handleNotification(cHandle, data) of the
\* installed delegate (lines 41-51); each line goes to _enqueue_line.
DlgNotify ==
  /\ dlg.pc = "up"
  /\ \E data \in Chunks :
       /\ dlg.n + Len(data) <= MaxBytes
       /\ LET r == Drain(dlg.buf \o data, <<>>)
          IN dlg' = [dlg EXCEPT !.buf = r.buf,
                                !.q = dlg.q \o r.out,
                                !.rx[Len(dlg.rx)] = @ \o data,
                                !.n = dlg.n + Len(data)]
  /\ UNCHANGED <<bridgeVars, argV, lineV, lqV, blunoV>>
  /\ UNCHANGED <<gps, col, pub, cccd, gap, ble, rec, sin, rdl>>

\* The connection fails: run catches the exception and calls _cleanup (lines
\* 124-130, 214-221), which disconnects and replaces self.state.  The
\* delegate of the dead Peripheral keeps what it had buffered; _q is not
\* touched.
DlgFail ==
  /\ dlg.pc = "up"
  /\ dlg' = [dlg EXCEPT !.pc = "down"]
  /\ UNCHANGED <<bridgeVars, argV, lineV, lqV, blunoV>>
  /\ UNCHANGED <<gps, col, pub, cccd, gap, ble, rec, sin, rdl>>

DlgNext == DlgConnect \/ DlgNotify \/ DlgFail

InitDlg ==
  /\ BridgeIdle /\ ArgIdle /\ LineInit /\ LineQInit /\ BlunoIdle
  /\ dlg = DlgStarted
  /\ GpsIdle /\ ColIdle /\ PubIdle /\ CccdIdle /\ GapIdle /\ BleIdle /\ RecIdle
  /\ SinIdle /\ RdlIdle

SpecDlg == InitDlg /\ [][DlgNext]_vars

\* ================================================================= properties
Range(f) == {f[i] : i \in DOMAIN f}
Issued == 1..(nextId - 1)

\* The failure value the documentation gives each kind.
DocumentedFailure(kind) ==
  CASE kind = "PING" -> "False"
    [] kind = "GPS" -> "None"
    [] kind = "PUBLISH" -> "False"
    [] kind = "AT" -> ""
    [] kind = "DIRECT" -> ""
    [] kind = "HEALTH" -> ""

\* C1: the I/O steps the bridge performs on the link for one request are
\* contiguous: once a step of another request has occurred, no further step of
\* the first one follows, whatever the mix of concurrent callers and kinds.
C1_NoInterleaving ==
  \A i, j \in 1..Len(ioLog) : i # j => ioLog[i] # ioLog[j]

\* Two requests of different callers and kinds have both been on the link, the
\* second is in the middle of its protocol.
C1_Witness ==
  /\ Len(ioLog) = 2
  /\ wpc = "exec" /\ step > 1 /\ cur.id = ioLog[2]
  /\ \E c1, c2 \in Callers :
       /\ c1 # c2
       /\ creq[c1].id = ioLog[1] /\ creq[c2].id = ioLog[2]
       /\ creq[c1].kind # creq[c2].kind

\* C2: the protocol of a dequeued request is run at most twice; a first raise
\* is followed by exactly one recovery and one retry; when the retry raises
\* too there is no second recovery and no third run, and the degraded reply of
\* the kind is put: False for PING and PUBLISH, None for GPS, the empty string
\* for AT, DIRECT and HEALTH.
C2_RetryPolicy ==
  /\ nAttempts <= 2 /\ nRecov <= 1 /\ nRaise <= 2
  /\ wpc = "exec" => nAttempts = nRaise + 1 /\ nRecov = nRaise
  /\ wpc = "except" => nAttempts = nRaise /\ nRecov = nRaise - 1
  /\ lastDone # 0 =>
       /\ nPuts[lastDone] = 1 /\ lastPut.for = lastDone
       /\ lastPut.attempts = nAttempts /\ lastPut.raises = nRaise
       /\ nRaise = 0 => nAttempts = 1 /\ nRecov = 0
       /\ nRaise >= 1 => nAttempts = 2 /\ nRecov = 1
       /\ nRaise = 2 => lastPut.val = DocumentedFailure(lastPut.kind)

\* Both attempts of a locate request raised and its degraded reply is out.
C2_Witness ==
  /\ lastDone # 0 /\ nRaise = 2 /\ nRecov = 1
  /\ lastPut.kind = "GPS" /\ lastPut.val = "None"

\* C3: a public operation never raises and cannot block for good: when its
\* put raised queue.Full or its get raised queue.Empty it returns the failure
\* value of its kind, and in put and in get one of its ways out is always open.
C3_AlwaysReturns ==
  \A c \in Callers :
    /\ ~cres[c].raised
    /\ cpc[c] = "done" /\ cres[c].how \in {"Full", "Empty"} =>
         cres[c].val = DocumentedFailure(creq[c].kind)
    /\ cpc[c] = "put" => ENABLED (PutOk(c) \/ PutTimeout(c))
    /\ cpc[c] = "wait" => ENABLED (GetReply(c) \/ GetTimeout(c))

\* After close() one caller was turned away by a full queue and another got no
\* reply within its wait.
C3_Witness ==
  /\ mpc = "closed"
  /\ \E c1, c2 \in Callers :
       /\ cpc[c1] = "done" /\ cres[c1].how = "Full"
       /\ cpc[c2] = "done" /\ cres[c2].how = "Empty"

\* C4: the worker begins to execute requests in the order in which they were
\* placed on the command queue.
C4_ArrivalOrder ==
  /\ Len(startOrder) <= Len(enqOrder)
  /\ \A i \in 1..Len(startOrder) : startOrder[i] = enqOrder[i]

\* Two requests of different callers and kinds were both begun.
C4_Witness ==
  /\ Len(startOrder) = 2
  /\ wpc = "exec" /\ cur.id = startOrder[2]
  /\ \E c \in Callers : creq[c].id = startOrder[1] /\ creq[c].kind # cur.kind

\* C5: the command queue never holds more than its capacity; a request whose
\* put found the queue full for its whole second is reported to its caller with
\* the failure value of its kind, is not on the queue and is never executed.
C5_Saturation ==
  /\ Len(cmd_q) <= maxsize
  /\ \A id \in rejected :
       /\ id \notin Range(enqOrder) /\ id \notin Range(startOrder)
       /\ id \notin Range(ioLog) /\ id # cur.id
       /\ \A i \in 1..Len(cmd_q) : cmd_q[i].id # id
       /\ nPuts[id] = 0
  /\ \A c \in Callers :
       cpc[c] = "done" /\ cres[c].how = "Full" =>
         /\ creq[c].id \in rejected
         /\ cres[c].val = DocumentedFailure(creq[c].kind)

\* A request was turned away while the queue was full of requests (no stop
\* sentinel), and the worker has since emptied the queue.
C5_Witness ==
  /\ rejected # {} /\ mpc = "live"
  /\ cmd_q = <<>> /\ wpc = "get" /\ startOrder # <<>>

\* C6: every operation on the serial transport, open and close included, is
\* performed by the bridge worker.
C6_OnlyWorkerTouches == \A t \in touched : t[1] = "worker"

\* C7: a reply value lies only on the reply queue created for its request, at
\* most one value is put per request, no two requests share a reply queue, and
\* the value a caller takes from its queue was computed for its own request.
C7_PrivateReplies ==
  /\ \A k \in DOMAIN chan : \A i \in 1..Len(chan[k]) : chanOf[chan[k][i].for] = k
  /\ \A id \in DOMAIN nPuts : nPuts[id] <= 1
  /\ \A id1, id2 \in Issued : id1 # id2 => chanOf[id1] # chanOf[id2]
  /\ \A c \in Callers :
       cpc[c] = "done" /\ cres[c].how = "reply" => cres[c].for = creq[c].id

\* A caller gave up on its first request, whose reply was put afterwards and
\* still lies on the abandoned queue, and has taken the reply of its second.
C7_Witness ==
  /\ nextId = 3 /\ nPuts[1] = 1 /\ chan[chanOf[1]] # <<>>
  /\ \E c \in Callers :
       /\ cpc[c] = "done" /\ cres[c].how = "reply" /\ creq[c].id = 2
       /\ \A d \in Callers \ {c} : cpc[d] = "idle"

\* C8: with the default and with any caller-chosen timeout argument, the
\* caller's wait for the reply is strictly greater than the longest the
\* worker's protocol of that kind may take.
C8_CallerOutwaitsWorker == a_pc = "wait" => a_wait > a_max

\* The lines the split of the whole stream gives: its newline-terminated
\* segments, the unterminated tail dropped.
RECURSIVE Segments(_)
Segments(b) ==
  IF Find(b) = 0 THEN <<>>
  ELSE <<SubSeq(b, 1, Find(b) - 1)>> \o Segments(SubSeq(b, Find(b) + 1, Len(b)))

NonEmpty(t) == t # <<>>
StripDecoded(seg) == Strip(Decode(seg))
Stripped(segs) == [i \in 1..Len(segs) |-> StripDecoded(segs[i])]

LastN(t, n) == SubSeq(t, Len(t) - n + 1, Len(t))

\* C10: with no consumer, after N calls of _enqueue_line the queue holds
\* exactly the last min(N, capacity) pairs pushed, in push order.
C10_KeepsNewest == line_q = LastN(pushed, Min(Len(pushed), LineQMax))

\* The queue overflowed twice and holds pairs of different lines and times.
C10_Witness ==
  /\ Len(pushed) = LineQMax + 2
  /\ Len(line_q) = LineQMax
  /\ line_q[1] # line_q[LineQMax]
  /\ line_q[1][1] < line_q[LineQMax][1]

\* Strictly increasing sequence of numbers.
Increasing(t) == \A i, j \in 1..Len(t) : i < j => t[i] < t[j]

\* C11: the line queue _q never holds more than its capacity, and every step
\* of _enqueue_line can be taken at once in whatever state the TX thread and
\* the callers of stop() are: none of its steps waits.
C11_BoundedNonBlocking ==
  /\ Len(line_q) <= LineQMax
  /\ rpc = "enq_get" => ENABLED EnqGet
  /\ rpc = "enq_put2" => ENABLED EnqPut2
  /\ (rpc = "wait" /\ LinkUp) => ENABLED WaitNotif

\* _enqueue_line found the queue full and dropped the oldest pair; stop() took
\* the freed slot for its sentinel before the second put_nowait; the TX thread
\* has ended.
C11_Witness ==
  /\ rpc = "enq_put2"
  /\ Len(line_q) = LineQMax
  /\ line_q[LineQMax] = <<0, STOP>>
  /\ tpc = "dead"

C13_OneRecordOnEach ==
  /\ parse = "json" => Len(mqtt_out) = Len(parsed) /\ Len(db_out) = Len(parsed)
  /\ parse = "raw" => mqtt_out = <<>> /\ db_out = <<>>

\* C14: in json mode, the step in which the TX thread processes a line that
\* is no JSON puts nothing on either queue, removes the line from _q for
\* good, leaves the connection, the run thread and stop() untouched, and
\* returns the TX thread to the head of its loop.
C14_ParseFailureDropped ==
  [][(parse = "json" /\ t_last # "bad" /\ t_last' = "bad") =>
       /\ tpc' = "loop"
       /\ line_q' = Tail(line_q)
       /\ UNCHANGED <<mqtt_out, db_out, parsed>>
       /\ UNCHANGED <<connV, runV, stopV>>]_vars

\* Two lines that are no JSON were processed one after the other, and more
\* lines are waiting.
C14_Witness ==
  /\ parse = "json" /\ t_last = "bad" /\ n_taken = 2
  /\ tpc = "loop" /\ line_q # <<>> /\ ~stop_evt

\* C15: the TX thread has ended only if stop was requested.
C15_TxEndsOnlyOnStop == tpc \in {"dead", "exited"} => stop_evt

\* The positions of the run thread after its loop.
AfterLoop == {"fin_disc", "fin_reset", "exited"}

\* C16: the run thread leaves its loop only when stop is requested; every
\* round that raises goes to cleanup, then (no stop requested) into the
\* delay, from the delay to the loop condition and from there to a new
\* connect attempt, whatever the number of rounds that failed before.
C16_RetriesForever ==
  [][/\ (rpc \notin AfterLoop /\ rpc' \in AfterLoop) => stop_evt
     /\ nfail' # nfail => rpc' = "cl_disc"
     /\ (rpc = "cl_disc" /\ rpc' # rpc) => rpc' = "cl_reset"
     /\ (rpc = "cl_reset" /\ rpc' # rpc) => rpc' = "check"
     /\ (rpc = "check" /\ rpc' # rpc /\ ~stop_evt) => rpc' = "sleep"
     /\ (rpc = "sleep" /\ rpc' # rpc) => rpc' = "while"
     /\ (rpc = "while" /\ rpc' # rpc /\ ~stop_evt) => rpc' = "connect"]_vars

\* After MaxFail failed rounds, streaming rounds among them, and with no stop
\* requested, the run thread begins one more connect attempt.
C16_Witness ==
  /\ rpc = "connect" /\ nfail = MaxFail /\ nconn >= 1
  /\ ~stop_evt /\ \A s \in 1..NumStops : spc[s] = "idle"

\* C17: when the run thread has exited, no connection it opened is still
\* open and self.state.p holds no handle.
C17_ExitedMeansClean ==
  rpc = "exited" => state_p = 0 /\ \A k \in 1..MaxConn : conn[k] # "open"

\* C18: once stop is requested, a run thread inside the reconnect delay can
\* leave it at once, without the rest of the delay.
C18_StopCutsDelay == (rpc = "sleep" /\ stop_evt) => ENABLED SleepEnd

\* C19: disconnect() is called at most once on any connection.
C19_DisconnectOnce == \A k \in 1..MaxConn : ndisc[k] <= 1

\* C20: a second close() changes nothing: it closes no port and puts nothing
\* on the command queue.
C20_SecondCloseNoop ==
  [][(mpc = "closed" /\ mpc' = "closed2") =>
       UNCHANGED <<ser_open, touched, cmd_q, running>>]_vars

\* C21: _do_gps searches the concatenation of every line read so far: as
\* soon as the joined lines hold an object between their last "{" and their
\* last "}", whatever lines the two braces arrived on and whatever text
\* stands before and after, the method has returned that object.
C21_SearchesAllLines ==
  Candidate(TextStrip(JoinNL(gps.chunks))) \in {"object", "empty_object"} =>
    /\ gps.pc = "done"
    /\ gps.res = Candidate(TextStrip(JoinNL(gps.chunks)))

\* The lines `noise`, `more {`, `"lat":1,"lon":2} tail` were read and the
\* object returned.
C21_Witness ==
  /\ gps.chunks = << <<"x">>, <<"x", "{">>, <<"kv", "}", "x">> >>
  /\ gps.res = "object"

\* C22: a span that fails to parse does not end _do_gps: the method returns
\* None only when its deadline has passed.
C22_AbsentOnlyAtDeadline == gps.res = "absent" => gps.timed

\* C23: the collection of sendRaw, sendDirect and health ends as soon as a
\* line has been collected and none has followed for the quiet period: when
\* the last line is older than the quiet period before the deadline, the
\* collection has ended before the deadline.
C23_EndsAtQuiet ==
  (col.pc = "done" /\ col.n > 0 /\ col.last + QUIET_MS < col.end) =>
    col.now < col.end

IsPrefix(s, t) == Len(s) <= Len(t) /\ s = SubSeq(t, 1, Len(s))

InScan ==
  {i \in 1..Len(cccd.table) :
     /\ cccd.table[i].cccd
     /\ cccd.h <= cccd.table[i].handle
     /\ cccd.table[i].handle <= cccd.h + CCCD_SCAN_SPAN}

\* C25: _find_cccd resolves to h + 1 when the scan of [h, h + 12] fails or
\* finds no notification-enable descriptor, and to the handle of the first
\* such descriptor of the range when there is one.
C25_ResolvedHandle ==
  cccd.pc = "done" =>
    IF cccd.raises \/ InScan = {} THEN cccd.res = cccd.h + 1
    ELSE \E i \in InScan :
           /\ cccd.res = cccd.table[i].handle
           /\ \A j \in InScan : i <= j

\* The device lists a notification-enable descriptor one past the range and
\* none inside it: the handle resolved is h + 1.
C25_Witness ==
  /\ cccd.pc = "done"
  /\ ~cccd.raises
  /\ \E i \in 1..Len(cccd.table) :
       cccd.table[i].cccd /\ cccd.table[i].handle = cccd.h + CCCD_SCAN_SPAN + 1
  /\ InScan = {}
  /\ cccd.res = cccd.h + 1

\* C26: after every open of the serial port no command line is written
\* before the warm-up window has been waited out: the first write of an
\* attempt, the retry that follows a recovery included, never happens while
\* the window armed by the last open is still pending.
C26_NoWriteInsideWarmup ==
  [][(wpc = "exec" /\ step = 1 /\ (step' = 2 \/ wpc' = "except")) =>
       ~ready_armed]_vars

\* C27: the first write of a request's first attempt comes no earlier than
\* 0.5 s (publish) or 0.2 s (any other kind) after the recorded completion
\* time of the previous request, and after every dequeued request, however
\* it ended, _last_io_ts is the time of its completion.
C27_GapBeforeFirstWrite ==
  /\ gap.pc \in {"run", "done"} =>
       gap.first >= gap.last +
         (IF gap.kind = "PUBLISH" THEN GAP_PUBLISH_MS ELSE GAP_FAST_MS)
  /\ (gap.pc = "idle" /\ gap.n > 0) => gap.last = gap.now

\* A publish dequeued 300 ms after a request that ended degraded: its first
\* write came exactly 500 ms after that request's completion.
C27_Witness ==
  /\ gap.pc = "run"
  /\ gap.kind = "PUBLISH"
  /\ gap.n > 0
  /\ gap.first = gap.last + GAP_PUBLISH_MS

\* The positions of an entry in the log of the connect attempt.
At(entry) == {i \in 1..Len(ble.log) : ble.log[i] = entry}
Before(a, b) == \A i \in At(a) : \A j \in At(b) : i < j

\* C28: within one connect attempt the test that the notify characteristic
\* has NOTIFY comes before the password and UART writes, so that nothing is
\* written to the command characteristic when NOTIFY is lacking; and the
\* delegate is installed only after the enable-notification writes were
\* attempted.
C28_CheckBeforeWrites ==
  /\ Before("check", "pw") /\ Before("check", "uart")
  /\ ~ble.notify => At("pw") = {} /\ At("uart") = {}
  /\ At("delegate") # {} => At("cccd1") # {} /\ Before("cccd1", "delegate")
                            /\ Before("cccd3", "delegate")

\* C29: no failure of a best-effort step ends the attempt: an attempt that
\* raised did so because the notify characteristic is missing or lacks
\* NOTIFY; the second value is written only after the write of the first
\* failed; and an attempt that went through the steps has installed the
\* delegate when it enters streaming.
C29_BestEffortNeverAborts ==
  /\ ble.pc = "raised" => ~ble.found \/ ~ble.notify
  /\ At("cccd3") # {} => "cccd1" \in ble.failed
  /\ ble.pc = "streaming" => At("delegate") # {}

\* The password write, the UART write and both enable-notification writes
\* failed, and the worker is streaming.
C29_Witness ==
  /\ ble.pc = "streaming"
  /\ ble.failed = {"pw", "uart", "cccd1", "cccd3"}

\* C30: the timestamp of the record pushed onto the telemetry queue and of
\* the one pushed onto the persistence queue is the capture timestamp that
\* was paired with the line when it was enqueued: every record constructor
\* is handed that timestamp, and once the line is processed both queues hold
\* a record that carries it.
C30_CaptureTimestamp ==
  /\ \A i \in 1..Len(rec.kw) : rec.kw[i] = rec.ts
  /\ rec.pc \in {"loop", "dead"} => rec.mqtt = <<rec.ts>> /\ rec.db = <<rec.ts>>

\* C31: whenever the run thread waits out the reconnect delay or begins a
\* connect attempt, self.state holds no connection and no endpoint or
\* descriptor handle; and whatever self.state holds was obtained in the
\* latest attempt, never in an earlier one.
C31_StateEmptyBetweenAttempts ==
  /\ rpc \in {"sleep", "connect"} => state_p = 0 /\ state_h = 0
  /\ state_p # 0 => state_p = nconn
  /\ state_h # 0 => state_h = nconn

\* A second attempt begins after the first connection had been set up and
\* then failed.
C31_Witness ==
  /\ rpc = "connect"
  /\ nconn = 1
  /\ conn[1] = "closed"
  /\ nfail > 0
  /\ state_p = 0


\* C32: while the bridge is not closed, every request that was placed on the
\* command queue is eventually taken by the worker and exactly one reply is
\* eventually put on its reply channel (never a second one), whatever faults
\* the link injects.
C32_EveryRequestAnswered ==
  \A id \in 1..MaxReq :
    /\ (id \in Range(enqOrder)) ~> (id \in Range(startOrder) /\ nPuts[id] = 1)
    /\ [](nPuts[id] <= 1)

\* A request was answered with the degraded reply after both attempts raised
\* and the reopen of the port failed.
C32_Witness ==
  /\ lastPut.for # 0
  /\ lastPut.raises = MaxAttempts
  /\ ~ser_open
  /\ nPuts[lastPut.for] = 1
  /\ mpc = "live"


\* The caller of request id has returned the failure value because its own
\* wait on the reply queue ran out.
GaveUp(id) == \E c \in Callers : cres[c].how = "Empty" /\ cres[c].for = id

\* C33: the timeout of a caller cancels nothing: the step in which the wait
\* runs out leaves the command queue as it is, and while the bridge stays open
\* the worker still runs the request on the link and puts its reply.
C33_TimeoutDoesNotCancel ==
  /\ [][\A c \in Callers :
          (cpc[c] = "wait" /\ cres'[c].how = "Empty") => cmd_q' = cmd_q]_vars
  /\ \A id \in 1..MaxReq :
       GaveUp(id) ~> (id \in Range(ioLog) /\ nPuts[id] = 1)

\* publish_lines has returned False to its caller, and the worker has written
\* all five lines of that message and put True on the abandoned reply queue.
C33_Witness ==
  \E c \in Callers :
    /\ cres[c].how = "Empty"
    /\ cres[c].val = "False"
    /\ lastPut.for = cres[c].for
    /\ lastPut.kind = "PUBLISH"
    /\ lastPut.val = "True"
    /\ lastPut.raises = 0
    /\ chan[lastPut.chan] # <<>>


\* The place of request id in the order of the successful puts.
EnqPos(id) == CHOOSE i \in DOMAIN enqOrder : enqOrder[i] = id

\* The request was waiting when close() was called and the worker has not
\* taken it: nothing was put for it, and its caller, once back, holds the
\* failure value of its kind through the timeout of its own wait.
Unserved(id) ==
  /\ id \notin Range(ioLog)
  /\ nPuts[id] = 0
  /\ \A c \in Callers :
       (creq[c].id = id /\ cpc[c] = "done")
         => (cres[c].how = "Empty" /\ cres[c].val = FailureValue(creq[c].kind))

\* C34 as stated: no request that was waiting on the command queue when
\* close() was called is taken by the worker afterwards; none gets a reply and
\* the callers return the failure value by timeout.
C34_WaitingNeverExecuted ==
  \A id \in atClose : id \notin Range(startOrder) /\ Unserved(id)

\* C34, amended: of the requests waiting when close() was called at most the
\* oldest is still taken by the worker (it had passed `while self._running`
\* before the flag was cleared); every other one is never executed, gets no
\* reply, and its caller returns the failure value by timeout.
C34_OnlyOldestAfterClose ==
  \A id \in atClose :
    IF id \in Range(startOrder)
    THEN \A other \in atClose : EnqPos(id) <= EnqPos(other)
    ELSE Unserved(id)

\* Two requests were waiting at close(): the worker, already past its loop
\* test, served the older one and ended; the caller of the other one timed out.
C34_Witness ==
  /\ Cardinality(atClose) = 2
  /\ wpc = "stopped"
  /\ \E id \in atClose : id \in Range(startOrder) /\ nPuts[id] = 1
  /\ \E id \in atClose : id \notin Range(startOrder) /\ GaveUp(id)


\* C35: once close() has returned the port is closed and stays closed, and the
\* worker completes no further I/O step on it and does not reopen it, also when
\* close() came while a command was in execution and the join timed out.
C35_ClosedStaysClosed ==
  [][mpc = "closed" =>
       /\ ~ser_open /\ ~ser_open'
       /\ nRecov' <= nRecov
       /\ ~(wpc = "exec" /\ wpc' = "exec" /\ step' > step)]_vars


\* C36: every line in (or matched for) the reply of a request was sent by the
\* peer after the first write of that request: input an earlier request left
\* unread is never taken for the answer to a later one.
C36_ReplyFromOwnRequest ==
  sin.pc # "off" => \A i \in DOMAIN sin.got : sin.got[i].after >= sin.req


\* The bytes of a call up to its terminator.
Front(t) == SubSeq(t, 1, Len(t) - 1)

\* C37: a call of the read helper that ends at its deadline returns no line
\* and the bytes it had read are gone: the next call begins with an empty
\* buffer, and a line it returns is made of the bytes that call itself read
\* before the terminator, so the part of the line read by a call that timed
\* out is missing.
C37_PartialLineDiscarded ==
  rdl.pc # "off" =>
    /\ rdl.buf = SelectSeq(rdl.took, LAMBDA b : b # NL)
    /\ \A i \in DOMAIN rdl.out :
         IF rdl.out[i].res.none
         THEN NL \notin Range(rdl.out[i].took)
         ELSE rdl.out[i].res.line = RStripCR(Decode(Front(rdl.out[i].took)))

\* The peer sent "ab\n": the first call read "a" and ended at its deadline
\* with no line, the second call returned the line "b".
C37_Witness ==
  /\ rdl.pc = "done"
  /\ rdl.out[1] = [res |-> [none |-> TRUE, line |-> <<>>], took |-> <<97>>]
  /\ rdl.out[2] = [res |-> [none |-> FALSE, line |-> <<98>>], took |-> <<98, NL>>]


\* C38: a line of the device whose text is `__STOP__` is taken by the TX
\* thread for the sentinel: the thread exits whether or not stop was
\* requested, and once it has exited no line is taken, decoded or forwarded,
\* whatever the run thread goes on to enqueue.
C38_StopTextEndsDecoding ==
  [][/\ (tpc = "get" /\ tpc' # "get" /\ line_q # <<>> /\ Head(line_q)[2] = STOP)
          => tpc' = "exited"
     /\ tpc = "exited" =>
          /\ tpc' = "exited"
          /\ UNCHANGED <<t_last, n_taken, parsed, mqtt_out, db_out>>]_vars

\* No stop was requested: the device sent `__STOP__`, the TX thread has
\* exited on it, the run thread is still streaming and lines wait undecoded.
C38_Witness ==
  /\ ~stop_evt
  /\ tpc = "exited"
  /\ t_last = STOP
  /\ rpc = "stream"
  /\ line_q # <<>>


\* The lines of the streams of the connections, each stream split on its own.
RECURSIVE LinesOf(_)
LinesOf(rxs) ==
  IF rxs = <<>> THEN <<>>
  ELSE SelectSeq(Stripped(Segments(Head(rxs))), NonEmpty) \o LinesOf(Tail(rxs))

\* The bytes of a stream after its last terminator.
RECURSIVE Rest(_)
Rest(b) == IF Find(b) = 0 THEN b ELSE Rest(SubSeq(b, Find(b) + 1, Len(b)))

\* C39: the lines on _q are the lines of each connection's own stream, so the
\* bytes of a line left incomplete when a connection failed are in no line of
\* a later connection; the buffer of a connection just made is empty and
\* while the connection is up holds the incomplete end of its own stream; a
\* reconnect (failure, then connect) leaves the lines on _q as they are.
C39_FreshBufferPerConnection ==
  [][dlg.pc # "off" =>
       /\ dlg'.q = LinesOf(dlg'.rx)
       /\ dlg'.pc = "up" => dlg'.buf = Rest(dlg'.rx[Len(dlg'.rx)])
       /\ dlg'.pc # dlg.pc => dlg'.q = dlg.q]_vars

\* The first connection failed with "a" buffered; on the second connection
\* "b\n" came in: the queue holds the line "b", not "ab".
C39_Witness ==
  /\ dlg.pc = "up"
  /\ dlg.rx = <<<<97>>, <<98, NL>>>>
  /\ dlg.q = <<<<98>>>>
  /\ dlg.buf = <<>>

====
